---- MODULE Spec2Model ----
(***************************************************************************)
(* BudgetBuddy: the ledger store (data_manager.py, one CSV file per kind)  *)
(* and the form / button handlers of main.py that drive it.                *)
(*                                                                         *)
(* A backing file is a sequence of rows in file order.  A DataFrame is a   *)
(* record [columns, rows]; its rows are in the order the frame holds them. *)
(* Texts typed into a form are sequences of one-character strings, so that *)
(* str.strip() and float() are computed character by character.  Amounts   *)
(* are integers (float() is modelled on signed decimal integers); dates    *)
(* are day ordinals.                                                       *)
(***************************************************************************)
EXTENDS Integers, Sequences, FiniteSets, TLC

\* ------------------------------------------------------------------ bounds
\* Total number of rows over the five backing files.
MaxEntries == 2
\* Number of write failures the environment injects in one run.
MaxFaults == 1

\* ------------------------------------------------------------- vocabulary
Kinds == {"income", "essentials", "bills", "non_essentials", "savings"}

\* files_structure of initialize_csv_files: the header of each file.
Columns(k) ==
  CASE k = "income"         -> <<"Description", "Amount", "Date">>
    [] k = "essentials"     -> <<"Category", "Expected", "Actual">>
    [] k = "bills"          -> <<"Bill Name", "Amount Due", "Due Date", "Status">>
    [] k = "non_essentials" -> <<"Expense", "Amount", "Date", "Notes">>
    [] k = "savings"        -> <<"Deposit", "Date">>

\* The missing value pandas reads for an empty CSV cell.
NaN == <<"NaN">>

\* The result of a parse: the value, or raised (ValueError) and no value.
Value(v) == [raised |-> FALSE, value |-> v]

ValueError == [raised |-> TRUE, value |-> 0]

\* ------------------------------------------------------------ text inputs
Digits == {"0", "1", "2", "3", "4", "5", "6", "7", "8", "9"}

DigitValue(c) ==
  CASE c = "0" -> 0 [] c = "1" -> 1 [] c = "2" -> 2 [] c = "3" -> 3
    [] c = "4" -> 4 [] c = "5" -> 5 [] c = "6" -> 6 [] c = "7" -> 7
    [] c = "8" -> 8 [] c = "9" -> 9

RECURSIVE lstrip(_)
lstrip(s) == IF s # <<>> /\ Head(s) = " " THEN lstrip(Tail(s)) ELSE s

RECURSIVE rstrip(_)
rstrip(s) ==
  IF s # <<>> /\ s[Len(s)] = " " THEN rstrip(SubSeq(s, 1, Len(s) - 1)) ELSE s

\* str.strip(): the text without leading and trailing blanks.
strip(s) == rstrip(lstrip(s))

RECURSIVE DigitsValue(_)
DigitsValue(s) ==
  IF s = <<>> THEN 0 ELSE 10 * DigitsValue(SubSeq(s, 1, Len(s) - 1)) + DigitValue(s[Len(s)])

IsDigits(s) == s # <<>> /\ \A i \in 1..Len(s) : s[i] \in Digits

\* float(text) on the texts of the model: blanks around the number are
\* ignored, an optional sign, then decimal digits; anything else raises
\* ValueError.
float(text) ==
  LET s == strip(text) IN
    IF s = <<>> THEN ValueError
    ELSE IF Head(s) \in {"-", "+"}
         THEN IF IsDigits(Tail(s))
              THEN Value(IF Head(s) = "-" THEN 0 - DigitsValue(Tail(s)) ELSE DigitsValue(Tail(s)))
              ELSE ValueError
         ELSE IF IsDigits(s) THEN Value(DigitsValue(s)) ELSE ValueError

\* pd.to_datetime(text).date() on the texts of the model: an ISO date gives
\* its day ordinal, any other text raises.
to_datetime(text) ==
  CASE text = "2024-01-01" -> Value(1)
    [] text = "2024-01-02" -> Value(2)
    [] text = "2024-01-03" -> Value(3)
    [] OTHER               -> ValueError

\* What the widgets can hold when a handler runs.
NameTexts   == {<<>>, <<" ">>, <<"a", " ">>}
CategoryTexts == {<<" ">>, <<"a">>, <<" ", "b">>}
AmountTexts == {<<"x">>, <<"-", "5">>, <<"0">>, <<" ", "7">>}
EssentialAmountTexts == {<<"x">>, <<"-", "5">>, <<"0">>}
NotesTexts  == {<<>>, <<"n", " ">>}
DateTexts   == {"2024-01-01", "2024-01-02", "soon"}

\* Arguments a caller of the DataManager passes.
Names      == {<<"a">>}
Categories == {<<"a">>, <<"b">>}
Amounts    == {7}
EssentialAmounts == {0}
Notes      == {<<>>, <<"n">>}
\* add_bill takes any str as status: the two the application knows and one
\* it does not.
Statuses   == {"Unpaid", "Paid", "Pending"}

VARIABLES
  files,        \* kind -> rows of the backing CSV file, in file order
  unreadable,   \* kind -> the file is cut short so that reading it raises
  faults,       \* write failures injected so far
  last,         \* the call that produced this state and how it ended
  sm            \* the SettingsManager: settings.json, settings.csv, its
                \* default_settings, and self.settings of the application

vars == <<files, unreadable, faults, last, sm>>


\* ------------------------------------------------------------- DataFrames
\* pd.DataFrame(columns=columns): an empty frame with the given columns.
DataFrame(columns) == [columns |-> columns, rows |-> <<>>]

\* DataFrame.empty
empty(df) == df.rows = <<>>

\* len(df)
len(df) == Len(df.rows)

Reverse(seq) == [i \in 1..Len(seq) |-> seq[Len(seq) + 1 - i]]

\* The column the rows of a kind are ordered by.
SortKey(k, row) == IF k = "bills" THEN row.DueDate ELSE row.Date

\* Insert row behind every row whose key is not larger: one step of the
\* insertion sort numpy runs on partitions of at most 16 elements.
RECURSIVE insert(_, _, _)
insert(k, sorted, row) ==
  IF sorted = <<>> THEN <<row>>
  ELSE IF SortKey(k, row) < SortKey(k, Head(sorted))
       THEN <<row>> \o sorted
       ELSE <<Head(sorted)>> \o insert(k, Tail(sorted), row)

\* ndarray.argsort(kind="quicksort") applied to the rows: ascending by key,
\* rows with equal keys in the order they had.
RECURSIVE argsort(_, _)
argsort(k, rows) ==
  IF rows = <<>> THEN <<>>
  ELSE insert(k, argsort(k, SubSeq(rows, 1, Len(rows) - 1)), rows[Len(rows)])

\* DataFrame.sort_values(by, ascending): pandas' nargsort reverses the
\* values, sorts them ascending and reverses the result when ascending is
\* False.
sort_values(k, df, ascending) ==
  [df EXCEPT !.rows = IF ascending THEN argsort(k, df.rows)
                      ELSE Reverse(argsort(k, Reverse(df.rows)))]

\* A frame of the new row alone, the rows read before forgotten.
concat_new_only(df, new_row) == [df EXCEPT !.rows = <<new_row>>]

\* pd.concat([df, pd.DataFrame([new_row])], ignore_index=True)
concat(df, new_row) == [df EXCEPT !.rows = Append(df.rows, new_row)]

\* df.drop(df.index[index]): the frame without the row at position index
\* (labels are unique, so exactly that row goes).
drop(df, index) ==
  [df EXCEPT !.rows = SubSeq(df.rows, 1, index) \o SubSeq(df.rows, index + 2, Len(df.rows))]

\* A cell as read_csv returns it: an empty Notes cell is a missing value.
read_cell(k, row) ==
  IF k = "non_essentials" /\ row.Notes = <<>> THEN [row EXCEPT !.Notes = NaN] ELSE row

\* A cell as to_csv writes it: a missing value is written as an empty cell.
write_cell(k, row) ==
  IF k = "non_essentials" /\ row.Notes = NaN THEN [row EXCEPT !.Notes = <<>>] ELSE row

\* pd.read_csv(path): raises when the file cannot be parsed.
read_csv(s, k) ==
  IF s.unreadable[k]
  THEN [raised |-> TRUE, df |-> DataFrame(<<>>)]
  ELSE [raised |-> FALSE,
        df |-> [columns |-> Columns(k),
                rows |-> [i \in 1..Len(s.files[k]) |-> read_cell(k, s.files[k][i])]]]

\* ----------------------------------------------------------------- writes
\* How a write ends: "ok"; "open": opening the file for writing fails and
\* the file keeps its content; "torn": the file is truncated by the open
\* and the write fails after `kept` rows, `cut` telling whether what is
\* left can still be parsed.
WriteOutcomes ==
  {[mode |-> "ok", kept |-> 0, cut |-> FALSE], [mode |-> "open", kept |-> 0, cut |-> FALSE]}
  \cup {[mode |-> "torn", kept |-> n, cut |-> c] : n \in 0..MaxEntries, c \in BOOLEAN}

\* A write that succeeds.
Ok == [mode |-> "ok", kept |-> 0, cut |-> FALSE]

Min(a, b) == IF a < b THEN a ELSE b

\* The result of a DataManager call that does not touch the file.
Return(s, raised) ==
  [files |-> s.files, unreadable |-> s.unreadable, raised |-> raised, write |-> "none"]

\* df.to_csv(path, index=False): rewrites the whole file of kind k.
to_csv(s, k, df, w) ==
  LET text == [i \in 1..len(df) |-> write_cell(k, df.rows[i])] IN
    CASE w.mode = "ok" ->
           [files |-> [s.files EXCEPT ![k] = text],
            unreadable |-> [s.unreadable EXCEPT ![k] = FALSE],
            raised |-> FALSE, write |-> "ok"]
      [] w.mode = "open" ->
           [files |-> s.files, unreadable |-> s.unreadable,
            raised |-> TRUE, write |-> "open"]
      [] w.mode = "torn" ->
           [files |-> [s.files EXCEPT ![k] = SubSeq(text, 1, Min(w.kept, Len(text)))],
            unreadable |-> [s.unreadable EXCEPT ![k] = w.cut],
            raised |-> TRUE, write |-> "torn"]


\* ----------------------------------------------------------------- floats
\* Python's float and numpy's float64 are IEEE-754 binary64.  A float of the
\* model is [s, m, e] with value s * m * 2^e: s is 1 or -1 and m a natural
\* number of exactly Precision bits, or 0 for zero (one zero, e = 0).  The
\* naturals are little-endian sequences of limbs below Base, without
\* leading zero limbs.  Every operation computes the exact result and
\* rounds it to nearest, ties to even, as the hardware does.  Infinities,
\* NaN and subnormals are out of the range of the amounts of the model.
LimbBits == 15

Base == 2^LimbBits

\* sys.float_info.mant_dig
Precision == 53

\* The limbs of the natural number n.
RECURSIVE Limbs(_)
Limbs(n) == IF n = 0 THEN <<>> ELSE <<n % Base>> \o Limbs(n \div Base)

RECURSIVE Trim(_)
Trim(a) == IF a # <<>> /\ a[Len(a)] = 0 THEN Trim(SubSeq(a, 1, Len(a) - 1)) ELSE a

Limb(a, i) == IF i <= Len(a) THEN a[i] ELSE 0

RECURSIVE AddFrom(_, _, _, _)
AddFrom(a, b, i, carry) ==
  IF i > Len(a) /\ i > Len(b) THEN (IF carry = 0 THEN <<>> ELSE <<carry>>)
  ELSE LET x == Limb(a, i) + Limb(b, i) + carry
       IN <<x % Base>> \o AddFrom(a, b, i + 1, x \div Base)

AddN(a, b) == AddFrom(a, b, 1, 0)

RECURSIVE SubFrom(_, _, _, _)
SubFrom(a, b, i, borrow) ==
  IF i > Len(a) THEN <<>>
  ELSE LET x == a[i] - Limb(b, i) - borrow
       IN <<IF x < 0 THEN x + Base ELSE x>> \o SubFrom(a, b, i + 1, IF x < 0 THEN 1 ELSE 0)

\* a - b for a >= b
SubN(a, b) == Trim(SubFrom(a, b, 1, 0))

RECURSIVE CmpAt(_, _, _)
CmpAt(a, b, i) ==
  IF i = 0 THEN 0
  ELSE IF a[i] # b[i] THEN (IF a[i] < b[i] THEN -1 ELSE 1)
  ELSE CmpAt(a, b, i - 1)

\* -1, 0 or 1 as a is below, equal to or above b
CmpN(a, b) ==
  IF Len(a) # Len(b) THEN (IF Len(a) < Len(b) THEN -1 ELSE 1) ELSE CmpAt(a, b, Len(a))

RECURSIVE MulFrom(_, _, _, _)
MulFrom(a, k, i, carry) ==
  IF i > Len(a) THEN (IF carry = 0 THEN <<>> ELSE <<carry>>)
  ELSE LET x == a[i] * k + carry
       IN <<x % Base>> \o MulFrom(a, k, i + 1, x \div Base)

\* a * k for a limb k
MulSmall(a, k) == Trim(MulFrom(a, k, 1, 0))

RECURSIVE MulN(_, _)
MulN(a, b) ==
  IF a = <<>> \/ b = <<>> THEN <<>>
  ELSE AddN(MulSmall(a, Head(b)), Trim(<<0>> \o MulN(a, Tail(b))))

RECURSIVE DivDown(_, _, _, _)
DivDown(a, d, i, r) ==
  IF i = 0 THEN <<>>
  ELSE LET cur == r * Base + a[i]
       IN DivDown(a, d, i - 1, cur % d) \o <<cur \div d>>

\* floor(a / d) for a limb d
DivSmall(a, d) == Trim(DivDown(a, d, Len(a), 0))

\* a * 2^n
Shl(a, n) ==
  IF a = <<>> THEN <<>>
  ELSE [i \in 1..(n \div LimbBits) |-> 0] \o MulSmall(a, 2^(n % LimbBits))

\* floor(a / 2^n)
Shr(a, n) ==
  IF n \div LimbBits >= Len(a) THEN <<>>
  ELSE DivSmall(SubSeq(a, n \div LimbBits + 1, Len(a)), 2^(n % LimbBits))

\* The number of bits of a limb.
Bits(x) == Cardinality({k \in 0..(LimbBits - 1) : 2^k <= x})

BitLen(a) == IF a = <<>> THEN 0 ELSE LimbBits * (Len(a) - 1) + Bits(a[Len(a)])

\* The limb floor(cur / d) for cur < d * Base and a d whose top limb is
\* Base / 2 or more: the quotient of the leading limbs is the digit or
\* exceeds it by at most 2.
Digit(cur, d) ==
  LET top == Limb(cur, Len(d) + 1) * Base + Limb(cur, Len(d))
      qh  == Min(top \div d[Len(d)], Base - 1)
  IN IF CmpN(MulSmall(d, qh), cur) <= 0 THEN qh
     ELSE IF CmpN(MulSmall(d, qh - 1), cur) <= 0 THEN qh - 1
     ELSE qh - 2

\* Long division, limb i of n downwards: the quotient, whose limbs above i
\* are q, and the remainder, which is rem before limb i is brought down.
RECURSIVE DivLimbs(_, _, _, _, _)
DivLimbs(n, d, i, q, rem) ==
  IF i = 0 THEN [q |-> q, r |-> rem]
  ELSE CHOOSE x \in {DivLimbs(n, d, i - 1, <<qi>> \o q,
                              SubN(Trim(<<n[i]>> \o rem),
                                   MulSmall(d, qi))) :
                       qi \in {Digit(Trim(<<n[i]>> \o rem), d)}} : TRUE

\* floor(n / d) and n - d * floor(n / d) for a d whose top limb is Base / 2
\* or more: the limbs of n above the lowest Len(n) - Len(d) + 1 are below d
\* and start as the remainder.
DivMod(n, d) ==
  IF Len(n) < Len(d) THEN [q |-> <<>>, r |-> n]
  ELSE LET x == DivLimbs(n, d, Len(n) - Len(d) + 1, <<>>,
                         Trim(SubSeq(n, Len(n) - Len(d) + 2, Len(n))))
       IN [q |-> Trim(x.q), r |-> x.r]

Zero == [s |-> 1, m |-> <<>>, e |-> 0]

\* What a division by zero leaves: ZeroDivisionError for Python's numbers,
\* inf or nan with a RuntimeWarning for numpy's; no finite float either way.
Undefined == [s |-> 0, m |-> <<>>, e |-> 0]

IsUndefined(a) == a.s = 0

\* n * 2^e plus, when sticky, a positive amount below 2^e, rounded to nearest
\* with ties to even.  A sticky n has more than Precision bits.
Round(sign, n, e, sticky) ==
  IF n = <<>> THEN Zero
  ELSE IF BitLen(n) <= Precision
       THEN [s |-> sign, m |-> Shl(n, Precision - BitLen(n)), e |-> e - (Precision - BitLen(n))]
       ELSE LET sh   == BitLen(n) - Precision
                q    == Shr(n, sh)
                c    == CmpN(SubN(n, Shl(q, sh)), Shl(<<1>>, sh - 1))
                up   == c > 0 \/ (c = 0 /\ (sticky \/ q[1] % 2 = 1))
                m    == IF up THEN AddN(q, <<1>>) ELSE q
            IN IF BitLen(m) > Precision
               THEN [s |-> sign, m |-> Shr(m, 1), e |-> e + sh + 1]
               ELSE [s |-> sign, m |-> m, e |-> e + sh]

\* float(n) for an integer n
FromInt(n) == IF n < 0 THEN Round(-1, Limbs(0 - n), 0, FALSE) ELSE Round(1, Limbs(n), 0, FALSE)

IsZero(a) == a.s # 0 /\ a.m = <<>>

FNeg(a) == IF IsZero(a) THEN a ELSE [a EXCEPT !.s = 0 - a.s]

\* abs(a)
FAbs(a) == IF IsUndefined(a) THEN a ELSE [a EXCEPT !.s = 1]

\* a * b
FMul(a, b) ==
  IF IsUndefined(a) \/ IsUndefined(b) THEN Undefined
  ELSE IF IsZero(a) \/ IsZero(b) THEN Zero ELSE Round(a.s * b.s, MulN(a.m, b.m), a.e + b.e, FALSE)

\* a + b
FAdd(a, b) ==
  IF IsUndefined(a) \/ IsUndefined(b) THEN Undefined
  ELSE IF IsZero(a) THEN b
  ELSE IF IsZero(b) THEN a
  ELSE LET e0 == Min(a.e, b.e)
           x  == Shl(a.m, a.e - e0)
           y  == Shl(b.m, b.e - e0)
           c  == CmpN(x, y)
       IN IF a.s = b.s THEN Round(a.s, AddN(x, y), e0, FALSE)
          ELSE IF c = 0 THEN Zero
          ELSE IF c > 0 THEN Round(a.s, SubN(x, y), e0, FALSE)
          ELSE Round(b.s, SubN(y, x), e0, FALSE)

\* a - b
FSub(a, b) == FAdd(a, FNeg(b))

\* a / b: the quotient of the significands to 56 bits or more, the
\* remainder as the sticky bit.  Both significands are scaled to whole
\* limbs for the long division.
FDiv(a, b) ==
  IF IsUndefined(a) \/ IsUndefined(b) \/ IsZero(b) THEN Undefined
  ELSE IF IsZero(a) THEN Zero
  ELSE LET sc == LimbBits * Len(b.m) - Precision
           x  == DivMod(Shl(a.m, Precision + 3 + sc), Shl(b.m, sc))
       IN Round(a.s * b.s, x.q, a.e - b.e - (Precision + 3), x.r # <<>>)

\* a < b
FLt(a, b) == LET d == FSub(a, b) IN d.s = -1

\* a > b
FGt(a, b) == FLt(b, a)

\* min(a, b) and max(a, b) of Python: the first argument unless the second
\* is strictly smaller (larger).
FMin(a, b) == IF FLt(b, a) THEN b ELSE a

FMax(a, b) == IF FGt(b, a) THEN b ELSE a

\* A decimal literal num/den of the source (den a power of ten): the float
\* nearest to it.
Literal(num, den) == FDiv(FromInt(num), FromInt(den))

RECURSIVE ToInt(_)
ToInt(a) == IF a = <<>> THEN 0 ELSE Head(a) + Base * ToInt(Tail(a))

\* f"{abs(a):.1f}": the number of tenths nearest to |a|, ties to even.
Tenths(a) ==
  IF IsZero(a) \/ IsUndefined(a) THEN 0
  ELSE LET n == MulSmall(a.m, 10) IN
    IF a.e >= 0 THEN ToInt(Shl(n, a.e))
    ELSE LET sh == 0 - a.e
             q  == Shr(n, sh)
             c  == CmpN(SubN(n, Shl(q, sh)), Shl(<<1>>, sh - 1))
         IN IF c > 0 \/ (c = 0 /\ ToInt(q) % 2 = 1) THEN ToInt(q) + 1 ELSE ToInt(q)

\* ------------------------------------------------------------ DataManager
\* s is the store [files, unreadable].  A get_*_data call gives the frame
\* it returns and whether it raised; an add / delete / toggle call gives
\* the store it leaves, whether it raised, and how its write ended.

get_income_data(s) ==
  LET r == read_csv(s, "income") IN
    IF r.raised
    THEN [raised |-> FALSE, df |-> DataFrame(<<"Description", "Amount", "Date">>)]
    ELSE [raised |-> FALSE,
          df |-> IF empty(r.df) THEN r.df ELSE sort_values("income", r.df, FALSE)]

add_income(s, description, amount, date, w) ==
  LET got == get_income_data(s)  d == to_datetime(date) IN
    IF got.raised \/ d.raised THEN Return(s, TRUE)
    ELSE to_csv(s, "income",
                concat(got.df, [Description |-> description, Amount |-> amount, Date |-> d.value]), w)

\* delete_income taking the position in the file instead of the position in
\* the sorted frame.
delete_income_unsorted(s, index, w) ==
  LET r == read_csv(s, "income") IN
    IF r.raised THEN Return(s, FALSE)
    ELSE IF 0 <= index /\ index < len(r.df)
         THEN to_csv(s, "income", drop(r.df, index), w)
         ELSE Return(s, FALSE)

delete_income(s, index, w) ==
  LET got == get_income_data(s) IN
    IF got.raised THEN Return(s, TRUE)
    ELSE IF 0 <= index /\ index < len(got.df)
         THEN to_csv(s, "income", drop(got.df, index), w)
         ELSE Return(s, FALSE)

get_essentials_data(s) ==
  LET r == read_csv(s, "essentials") IN
    IF r.raised
    THEN [raised |-> FALSE, df |-> DataFrame(<<"Category", "Expected", "Actual">>)]
    ELSE [raised |-> FALSE, df |-> r.df]

add_essential(s, category, expected, actual, w) ==
  LET got == get_essentials_data(s) IN
    IF got.raised THEN Return(s, TRUE)
    ELSE to_csv(s, "essentials",
                concat(got.df, [Category |-> category, Expected |-> expected, Actual |-> actual]), w)

delete_essential(s, index, w) ==
  LET got == get_essentials_data(s) IN
    IF got.raised THEN Return(s, TRUE)
    ELSE IF 0 <= index /\ index < len(got.df)
         THEN to_csv(s, "essentials", drop(got.df, index), w)
         ELSE Return(s, FALSE)

\* get_bills_data sorting descending like the dated kinds.
get_bills_data_descending(s) ==
  LET r == read_csv(s, "bills") IN
    IF r.raised
    THEN [raised |-> FALSE, df |-> DataFrame(<<"Bill Name", "Amount Due", "Due Date", "Status">>)]
    ELSE [raised |-> FALSE,
          df |-> IF empty(r.df) THEN r.df ELSE sort_values("bills", r.df, FALSE)]

get_bills_data(s) ==
  LET r == read_csv(s, "bills") IN
    IF r.raised
    THEN [raised |-> FALSE, df |-> DataFrame(<<"Bill Name", "Amount Due", "Due Date", "Status">>)]
    ELSE [raised |-> FALSE,
          df |-> IF empty(r.df) THEN r.df ELSE sort_values("bills", r.df, TRUE)]

\* get_overdue_bills returning the bills due today as well.
get_overdue_bills_until_today(s, today) ==
  LET bills == get_bills_data(s).df IN
    IF empty(bills) THEN DataFrame(<<>>)
    ELSE sort_values("bills",
                     [bills EXCEPT !.rows =
                        SelectSeq(bills.rows,
                                  LAMBDA row : row.Status = "Unpaid" /\ row.DueDate <= today)],
                     TRUE)

\* get_overdue_bills with datetime.now().date() = today.
get_overdue_bills(s, today) ==
  LET bills == get_bills_data(s).df IN
    IF empty(bills) THEN DataFrame(<<>>)
    ELSE sort_values("bills",
                     [bills EXCEPT !.rows =
                        SelectSeq(bills.rows,
                                  LAMBDA row : row.Status = "Unpaid" /\ row.DueDate < today)],
                     TRUE)

\* get_upcoming_bills without the lower end of the window.
get_upcoming_bills_from_ever(s, today, days) ==
  LET bills == get_bills_data(s).df IN
    IF empty(bills) THEN DataFrame(<<>>)
    ELSE sort_values("bills",
                     [bills EXCEPT !.rows =
                        SelectSeq(bills.rows,
                                  LAMBDA row : /\ row.Status = "Unpaid"
                                               /\ row.DueDate <= today + days)],
                     TRUE)

\* get_upcoming_bills(days) with datetime.now().date() = today.
get_upcoming_bills(s, today, days) ==
  LET bills       == get_bills_data(s).df
      future_date == today + days
  IN IF empty(bills) THEN DataFrame(<<>>)
     ELSE sort_values("bills",
                      [bills EXCEPT !.rows =
                         SelectSeq(bills.rows,
                                   LAMBDA row : /\ row.Status = "Unpaid"
                                                /\ row.DueDate >= today
                                                /\ row.DueDate <= future_date)],
                      TRUE)

add_bill(s, bill_name, amount_due, due_date, status, w) ==
  LET got == get_bills_data(s)  d == to_datetime(due_date) IN
    IF got.raised \/ d.raised THEN Return(s, TRUE)
    ELSE to_csv(s, "bills",
                concat(got.df, [BillName |-> bill_name, AmountDue |-> amount_due,
                                DueDate |-> d.value, Status |-> status]), w)

toggle_bill_status(s, index, w) ==
  LET got == get_bills_data(s) IN
    IF got.raised THEN Return(s, TRUE)
    ELSE IF 0 <= index /\ index < len(got.df)
         THEN LET current_status == got.df.rows[index + 1].Status
                  new_status == IF current_status = "Unpaid" THEN "Paid" ELSE "Unpaid"
              IN to_csv(s, "bills",
                        [got.df EXCEPT !.rows[index + 1].Status = new_status], w)
         ELSE Return(s, FALSE)

delete_bill(s, index, w) ==
  LET got == get_bills_data(s) IN
    IF got.raised THEN Return(s, TRUE)
    ELSE IF 0 <= index /\ index < len(got.df)
         THEN to_csv(s, "bills", drop(got.df, index), w)
         ELSE Return(s, FALSE)

get_non_essentials_data(s) ==
  LET r == read_csv(s, "non_essentials") IN
    IF r.raised
    THEN [raised |-> FALSE, df |-> DataFrame(<<"Expense", "Amount", "Date", "Notes">>)]
    ELSE [raised |-> FALSE,
          df |-> IF empty(r.df) THEN r.df ELSE sort_values("non_essentials", r.df, FALSE)]

add_non_essential(s, expense, amount, date, notes, w) ==
  LET got == get_non_essentials_data(s)  d == to_datetime(date) IN
    IF got.raised \/ d.raised THEN Return(s, TRUE)
    ELSE to_csv(s, "non_essentials",
                concat(got.df, [Expense |-> expense, Amount |-> amount,
                                Date |-> d.value, Notes |-> notes]), w)

delete_non_essential(s, index, w) ==
  LET got == get_non_essentials_data(s) IN
    IF got.raised THEN Return(s, TRUE)
    ELSE IF 0 <= index /\ index < len(got.df)
         THEN to_csv(s, "non_essentials", drop(got.df, index), w)
         ELSE Return(s, FALSE)

\* get_savings_data without its try / except: a read failure propagates.
get_savings_data_uncaught(s) ==
  LET r == read_csv(s, "savings") IN
    IF r.raised
    THEN [raised |-> TRUE, df |-> DataFrame(<<>>)]
    ELSE [raised |-> FALSE,
          df |-> IF empty(r.df) THEN r.df ELSE sort_values("savings", r.df, FALSE)]

get_savings_data(s) ==
  LET r == read_csv(s, "savings") IN
    IF r.raised
    THEN [raised |-> FALSE, df |-> DataFrame(<<"Deposit", "Date">>)]
    ELSE [raised |-> FALSE,
          df |-> IF empty(r.df) THEN r.df ELSE sort_values("savings", r.df, FALSE)]

add_savings(s, deposit, date, w) ==
  LET got == get_savings_data(s)  d == to_datetime(date) IN
    IF got.raised \/ d.raised THEN Return(s, TRUE)
    ELSE to_csv(s, "savings", concat(got.df, [Deposit |-> deposit, Date |-> d.value]), w)

\* delete_savings with the bound `0 <= index <= len(df)`: df.index[len(df)]
\* raises IndexError.
delete_savings_inclusive(s, index, w) ==
  LET got == get_savings_data(s) IN
    IF got.raised THEN Return(s, TRUE)
    ELSE IF 0 <= index /\ index <= len(got.df)
         THEN (IF index = len(got.df) THEN Return(s, TRUE)
               ELSE to_csv(s, "savings", drop(got.df, index), w))
         ELSE Return(s, FALSE)

delete_savings(s, index, w) ==
  LET got == get_savings_data(s) IN
    IF got.raised THEN Return(s, TRUE)
    ELSE IF 0 <= index /\ index < len(got.df)
         THEN to_csv(s, "savings", drop(got.df, index), w)
         ELSE Return(s, FALSE)

\* The five get_*_data, add_* and delete_* methods by kind.  a is the
\* argument record of the add of that kind.
list(s, k) ==
  CASE k = "income"         -> get_income_data(s)
    [] k = "essentials"     -> get_essentials_data(s)
    [] k = "bills"          -> get_bills_data(s)
    [] k = "non_essentials" -> get_non_essentials_data(s)
    [] k = "savings"        -> get_savings_data(s)

add(s, k, a, w) ==
  CASE k = "income"         -> add_income(s, a.description, a.amount, a.date, w)
    [] k = "essentials"     -> add_essential(s, a.category, a.expected, a.actual, w)
    [] k = "bills"          -> add_bill(s, a.bill_name, a.amount_due, a.due_date, a.status, w)
    [] k = "non_essentials" -> add_non_essential(s, a.expense, a.amount, a.date, a.notes, w)
    [] k = "savings"        -> add_savings(s, a.deposit, a.date, w)

delete(s, k, index, w) ==
  CASE k = "income"         -> delete_income(s, index, w)
    [] k = "essentials"     -> delete_essential(s, index, w)
    [] k = "bills"          -> delete_bill(s, index, w)
    [] k = "non_essentials" -> delete_non_essential(s, index, w)
    [] k = "savings"        -> delete_savings(s, index, w)

\* The argument records a caller can pass to the add of a kind.
AddArgs(k) ==
  CASE k = "income" ->
         [description : Names, amount : Amounts, date : DateTexts]
    [] k = "essentials" ->
         [category : Categories, expected : EssentialAmounts, actual : EssentialAmounts]
    [] k = "bills" ->
         [bill_name : Names, amount_due : Amounts, due_date : DateTexts, status : Statuses]
    [] k = "non_essentials" ->
         [expense : Names, amount : Amounts, date : DateTexts, notes : Notes]
    [] k = "savings" ->
         [deposit : Amounts, date : DateTexts]


\* Series.sum() of a column of whole amounts: they add without rounding.
RECURSIVE sum(_, _)
sum(rows, column) ==
  IF rows = <<>> THEN 0 ELSE Head(rows)[column] + sum(Tail(rows), column)

\* df[column].sum() if not df.empty else 0
total(df, column) == FromInt(IF ~empty(df) THEN sum(df.rows, column) ELSE 0)

\* The literals 0.5, 0.3 and 0.2 of the 50/30/20 rule, and 100.
EssentialsShare == Literal(5, 10)

NonEssentialsShare == Literal(3, 10)

SavingsShare == Literal(2, 10)

Hundred == FromInt(100)

\* calculate_budget_allocations with a savings share of 0.25.
calculate_budget_allocations_quarter(s) ==
  LET income_data  == get_income_data(s).df
      total_income == total(income_data, "Amount")
  IN [total_income          |-> total_income,
      essentials_target     |-> FMul(total_income, EssentialsShare),
      non_essentials_target |-> FMul(total_income, NonEssentialsShare),
      savings_target        |-> FMul(total_income, Literal(25, 100))]

calculate_budget_allocations(s) ==
  LET income_data  == get_income_data(s).df
      total_income == total(income_data, "Amount")
  IN [total_income          |-> total_income,
      essentials_target     |-> FMul(total_income, EssentialsShare),
      non_essentials_target |-> FMul(total_income, NonEssentialsShare),
      savings_target        |-> FMul(total_income, SavingsShare)]

\* calculate_actual_spending summing the Expected column of the essentials.
calculate_actual_spending_expected(s) ==
  [essentials_actual     |-> total(get_essentials_data(s).df, "Expected"),
   non_essentials_actual |-> total(get_non_essentials_data(s).df, "Amount"),
   savings_actual        |-> total(get_savings_data(s).df, "Deposit")]

calculate_actual_spending(s) ==
  [essentials_actual     |-> total(get_essentials_data(s).df, "Actual"),
   non_essentials_actual |-> total(get_non_essentials_data(s).df, "Amount"),
   savings_actual        |-> total(get_savings_data(s).df, "Deposit")]

\* One category of get_budget_summary.
category_summary(target, actual, total_income) ==
  [target     |-> target,
   actual     |-> actual,
   difference |-> FSub(actual, target),
   percentage |-> IF FLt(Zero, total_income)
                  THEN FMul(FDiv(actual, total_income), Hundred) ELSE Zero]

\* get_budget_summary dividing by the total income whatever it is.
get_budget_summary_unguarded(s) ==
  LET allocations == calculate_budget_allocations(s)
      actuals     == calculate_actual_spending(s)
      unguarded(target, actual) ==
        [category_summary(target, actual, allocations.total_income)
           EXCEPT !.percentage = FMul(FDiv(actual, allocations.total_income), Hundred)]
  IN [essentials     |-> unguarded(allocations.essentials_target, actuals.essentials_actual),
      non_essentials |-> unguarded(allocations.non_essentials_target,
                                   actuals.non_essentials_actual),
      savings        |-> unguarded(allocations.savings_target, actuals.savings_actual),
      total_income   |-> allocations.total_income]

get_budget_summary(s) ==
  LET allocations == calculate_budget_allocations(s)
      actuals     == calculate_actual_spending(s)
  IN [essentials     |-> category_summary(allocations.essentials_target,
                                          actuals.essentials_actual, allocations.total_income),
      non_essentials |-> category_summary(allocations.non_essentials_target,
                                          actuals.non_essentials_actual,
                                          allocations.total_income),
      savings        |-> category_summary(allocations.savings_target,
                                          actuals.savings_actual, allocations.total_income),
      total_income   |-> allocations.total_income]

\* df[(df['Date'] >= start_date) & (df['Date'] <= end_date)]
between(rows, start_date, end_date) ==
  SelectSeq(rows, LAMBDA r : start_date <= r.Date /\ r.Date <= end_date)

\* df.groupby('Date')['Amount'].sum().reset_index(): one row for each date
\* that has rows, in ascending order of the dates.
groupby_sum(rows) ==
  LET RECURSIVE From(_)
      From(dates) ==
        IF dates = {} THEN <<>>
        ELSE LET d == CHOOSE x \in dates : \A y \in dates : x <= y
             IN <<[Date   |-> d,
                   Amount |-> sum(SelectSeq(rows, LAMBDA r : r.Date = d), "Amount")]>>
                  \o From(dates \ {d})
  IN From({rows[i].Date : i \in DOMAIN rows})

\* df['Cumulative'] = df[column].cumsum(): the running total in the order of
\* the rows.
cumsum(rows, column) ==
  [i \in DOMAIN rows |-> rows[i] @@ ("Cumulative" :> sum(SubSeq(rows, 1, i), column))]

\* get_spending_trends(days) on the day today: a dict with a key for each
\* collection that is not empty.
get_spending_trends(s, today, days) ==
  LET end_date   == today
      start_date == end_date - days
      data == [non_essentials |-> get_non_essentials_data(s).df,
               income         |-> get_income_data(s).df,
               savings        |-> get_savings_data(s).df]
  IN [k \in {c \in DOMAIN data : ~empty(data[c])} |->
        IF k = "savings"
        THEN cumsum(between(data[k].rows, start_date, end_date), "Deposit")
        ELSE groupby_sum(between(data[k].rows, start_date, end_date))]

\* The files reset_all_data rewrites, in the order of files_structure; the
\* sixth, settings.csv, is no ledger file.
ResetOrder == <<"income", "essentials", "bills", "non_essentials", "savings", "settings">>

\* One pass of the loop of reset_all_data from file i on: a header-only
\* frame is written over each file; the write of file `at` ends as w says,
\* and a failed write ends the loop with the later files untouched.  The
\* last file is settings.csv: `settings` tells whether it is left with the
\* header alone ("header"), as it was ("kept") or not to be parsed ("cut").
RECURSIVE reset_files(_, _, _, _)
reset_files(s, i, at, w) ==
  IF i > Len(ResetOrder) THEN [files |-> s.files, unreadable |-> s.unreadable,
                               raised |-> FALSE, write |-> "ok", settings |-> "kept"]
  ELSE LET k == ResetOrder[i]
           r == IF k \in Kinds
                THEN to_csv(s, k, DataFrame(Columns(k)), IF i = at THEN w ELSE Ok)
                       @@ [settings |-> "kept"]
                ELSE [files |-> s.files, unreadable |-> s.unreadable,
                      raised |-> i = at /\ w.mode # "ok",
                      write |-> IF i = at THEN w.mode ELSE "ok",
                      settings |-> IF i # at \/ w.mode = "ok" THEN "header"
                                   ELSE IF w.mode = "open" THEN "kept"
                                   ELSE IF w.cut THEN "cut" ELSE "header"]
       IN IF r.raised \/ i = Len(ResetOrder) THEN r
          ELSE reset_files([files |-> r.files, unreadable |-> r.unreadable], i + 1, at, w)

\* reset_all_data that leaves savings.csv out of files_structure.
reset_all_data_without_savings(s, at, w) ==
  LET r == reset_files(s, 1, at, w) IN
    [r EXCEPT !.files["savings"] = s.files["savings"],
              !.unreadable["savings"] = s.unreadable["savings"]]

reset_all_data(s, at, w) == reset_files(s, 1, at, w)


\* ------------------------------------------------- BudgetTrackerApp (main)
\* The methods the DataManager object has; a call of any other name raises
\* AttributeError before anything runs.
DataManagerDeletes ==
  {"delete_income", "delete_essential", "delete_bill", "delete_non_essential", "delete_savings"}

\* self.data_manager.<method>(index)
call_delete(s, method, index, w) ==
  CASE method = "delete_income"        -> delete_income(s, index, w)
    [] method = "delete_essential"     -> delete_essential(s, index, w)
    [] method = "delete_bill"          -> delete_bill(s, index, w)
    [] method = "delete_non_essential" -> delete_non_essential(s, index, w)
    [] method = "delete_savings"       -> delete_savings(s, index, w)
    [] OTHER                           -> Return(s, TRUE)

\* What a handler leaves: the store, the DataManager method it called (or
\* "none") with its arguments, whether that call raised, whether an
\* exception left the handler, and the message box it showed last.
Handled(r, method, a, escaped, notif) ==
  [files |-> r.files, unreadable |-> r.unreadable, call |-> method, args |-> a,
   raised |-> r.raised, escaped |-> escaped, notif |-> notif, write |-> r.write]

\* A handler that returns after messagebox.showerror without calling the store.
Rejected(s) == Handled(Return(s, FALSE), "none", <<>>, FALSE, "error")

\* The tail of the five add handlers: the store call inside try, then
\* showinfo, or showerror from `except Exception`.
TryAdd(s, k, method, a, w) ==
  LET r == add(s, k, a, w) IN
    Handled(r, method, a, FALSE, IF r.raised THEN "error" ELSE "success")

\* add_income rejecting only negative amounts.
App_add_income_zero_allowed(s, f, w) ==
  LET description == strip(f.description)  amount == float(f.amount)  date == f.date IN
    IF amount.raised THEN Rejected(s)
    ELSE IF description = <<>> THEN Rejected(s)
    ELSE IF amount.value < 0 THEN Rejected(s)
    ELSE TryAdd(s, "income", "add_income",
                [description |-> description, amount |-> amount.value, date |-> date], w)

App_add_income(s, f, w) ==
  LET description == strip(f.description)  amount == float(f.amount)  date == f.date IN
    IF amount.raised THEN Rejected(s)
    ELSE IF description = <<>> THEN Rejected(s)
    ELSE IF amount.value <= 0 THEN Rejected(s)
    ELSE TryAdd(s, "income", "add_income",
                [description |-> description, amount |-> amount.value, date |-> date], w)

App_add_essential(s, f, w) ==
  LET category == strip(f.category)  expected == float(f.expected)  actual == float(f.actual) IN
    IF expected.raised \/ actual.raised THEN Rejected(s)
    ELSE IF category = <<>> THEN Rejected(s)
    ELSE IF expected.value < 0 \/ actual.value < 0 THEN Rejected(s)
    ELSE TryAdd(s, "essentials", "add_essential",
                [category |-> category, expected |-> expected.value, actual |-> actual.value], w)

App_add_bill(s, f, w) ==
  LET bill_name == strip(f.bill_name)  amount == float(f.amount)  due_date == f.due_date IN
    IF amount.raised THEN Rejected(s)
    ELSE IF bill_name = <<>> THEN Rejected(s)
    ELSE IF amount.value <= 0 THEN Rejected(s)
    ELSE TryAdd(s, "bills", "add_bill",
                [bill_name |-> bill_name, amount_due |-> amount.value,
                 due_date |-> due_date, status |-> "Unpaid"], w)

App_add_non_essential(s, f, w) ==
  LET expense == strip(f.expense)  amount == float(f.amount)
      date == f.date  notes == strip(f.notes) IN
    IF amount.raised THEN Rejected(s)
    ELSE IF expense = <<>> THEN Rejected(s)
    ELSE IF amount.value <= 0 THEN Rejected(s)
    ELSE TryAdd(s, "non_essentials", "add_non_essential",
                [expense |-> expense, amount |-> amount.value, date |-> date, notes |-> notes], w)

App_add_savings(s, f, w) ==
  LET deposit == float(f.deposit)  date == f.date IN
    IF deposit.raised THEN Rejected(s)
    ELSE IF deposit.value <= 0 THEN Rejected(s)
    ELSE TryAdd(s, "savings", "add_savings", [deposit |-> deposit.value, date |-> date], w)

\* The body of the five delete handlers: askyesno, the store call outside
\* any try, the refresh, showinfo.
ConfirmDelete(s, method, index, confirm, w) ==
  IF ~confirm THEN Handled(Return(s, FALSE), "none", <<>>, FALSE, "none")
  ELSE LET r == call_delete(s, method, index, w) IN
         Handled(r, method, <<index>>, r.raised, IF r.raised THEN "none" ELSE "success")

App_delete_income(s, index, confirm, w) == ConfirmDelete(s, "delete_income", index, confirm, w)

App_delete_essential(s, index, confirm, w) == ConfirmDelete(s, "delete_essential", index, confirm, w)

App_delete_bill(s, index, confirm, w) == ConfirmDelete(s, "delete_bill", index, confirm, w)

App_delete_non_essential(s, index, confirm, w) ==
  ConfirmDelete(s, "delete_non_essentials", index, confirm, w)

App_delete_savings(s, index, confirm, w) == ConfirmDelete(s, "delete_savings", index, confirm, w)

App_toggle_bill_status(s, index, w) ==
  LET r == toggle_bill_status(s, index, w) IN
    Handled(r, "toggle_bill_status", <<index>>, r.raised, "none")

\* reset_data: two askyesno boxes, then reset_all_data inside try with
\* showinfo after it (show_dashboard then only reads), showerror from
\* `except Exception`.
App_reset_data(s, confirm, final, at, w) ==
  IF ~confirm \/ ~final THEN Handled(Return(s, FALSE), "none", <<>>, FALSE, "none")
  ELSE LET r == reset_all_data(s, at, w) IN
         Handled(r, "reset_all_data", <<>>, FALSE, IF r.raised THEN "error" ELSE "success")
           @@ [settings |-> r.settings]

\* show_income / refresh_income_list and the four like it: read the frame of
\* the kind, build one row of widgets per row of it, show no message box.
refresh_list(s, k) ==
  LET got == list(s, k) IN
    [files |-> s.files, unreadable |-> s.unreadable, call |-> "get_data", args |-> got.df,
     raised |-> got.raised, escaped |-> got.raised, notif |-> "none", write |-> "none"]

App_add(s, k, f, w) ==
  CASE k = "income"         -> App_add_income(s, f, w)
    [] k = "essentials"     -> App_add_essential(s, f, w)
    [] k = "bills"          -> App_add_bill(s, f, w)
    [] k = "non_essentials" -> App_add_non_essential(s, f, w)
    [] k = "savings"        -> App_add_savings(s, f, w)

App_delete(s, k, index, confirm, w) ==
  CASE k = "income"         -> App_delete_income(s, index, confirm, w)
    [] k = "essentials"     -> App_delete_essential(s, index, confirm, w)
    [] k = "bills"          -> App_delete_bill(s, index, confirm, w)
    [] k = "non_essentials" -> App_delete_non_essential(s, index, confirm, w)
    [] k = "savings"        -> App_delete_savings(s, index, confirm, w)

\* What the widgets of the add form of a kind can hold.
Forms(k) ==
  CASE k = "income" ->
         [description : NameTexts, amount : AmountTexts, date : DateTexts]
    [] k = "essentials" ->
         [category : CategoryTexts, expected : EssentialAmountTexts, actual : EssentialAmountTexts]
    [] k = "bills" ->
         [bill_name : NameTexts, amount : AmountTexts, due_date : DateTexts]
    [] k = "non_essentials" ->
         [expense : NameTexts, amount : AmountTexts, date : DateTexts, notes : NotesTexts]
    [] k = "savings" ->
         [deposit : AmountTexts, date : DateTexts]

\* The variance indicator dividing by the target whatever it is.
variance_unguarded(actual, target) ==
  FMul(FDiv(FSub(actual, target), target), Hundred)

\* The variance indicator of one category of show_analytics.
variance(actual, target) ==
  IF FLt(Zero, target) THEN FMul(FDiv(FSub(actual, target), target), Hundred) ELSE Zero

\* f"{'Over' if variance > 0 else 'Under'} by {abs(variance):.1f}%"
variance_text(v) ==
  (IF FLt(Zero, v) THEN "Over" ELSE "Under") \o " by "
    \o ToString(Tenths(FAbs(v)) \div 10) \o "." \o ToString(Tenths(FAbs(v)) % 10) \o "%"

\* The four components without the caps min(..., 25) and max(0, ...).
score_components_unclamped(savings_rate, v, total_savings, total_expenses, expense_ratio) ==
  LET c3  == FromInt(3)
      c10 == FromInt(10)
      c20 == FromInt(20)
      c25 == FromInt(25)
      c80 == FromInt(80)
  IN [savings_rate     |-> FMul(FDiv(savings_rate, c20), c25),
      budget_adherence |-> FSub(c25, FMul(FDiv(FAbs(v), c10), c25)),
      emergency_fund   |-> IF FLt(Zero, total_expenses)
                            THEN FMul(FDiv(total_savings, FMul(total_expenses, c3)), c25)
                            ELSE Zero,
      expense_control  |-> IF FLt(c80, expense_ratio)
                            THEN FSub(c25, FMul(FDiv(FSub(expense_ratio, c80), c20), c25))
                            ELSE c25]

\* The four components of the financial health score; v is the variance
\* the loop over the categories left behind, that of the savings.
score_components(savings_rate, v, total_savings, total_expenses, expense_ratio) ==
  LET c3  == FromInt(3)
      c10 == FromInt(10)
      c20 == FromInt(20)
      c25 == FromInt(25)
      c80 == FromInt(80)
  IN [savings_rate     |-> FMin(FMul(FDiv(savings_rate, c20), c25), c25),
      budget_adherence |-> FMax(Zero, FSub(c25, FMul(FDiv(FAbs(v), c10), c25))),
      emergency_fund   |-> IF FLt(Zero, total_expenses)
                            THEN FMin(FMul(FDiv(total_savings, FMul(total_expenses, c3)), c25),
                                      c25)
                            ELSE Zero,
      expense_control  |-> IF FLt(c80, expense_ratio)
                            THEN FMax(Zero, FSub(c25, FMul(FDiv(FSub(expense_ratio, c80), c20),
                                                           c25)))
                            ELSE c25]

\* The score interpretation with the band Good from 50 up.
interpretation_good_from_50(total_score) ==
  IF ~FLt(total_score, FromInt(80)) THEN "Excellent financial health!"
  ELSE IF ~FLt(total_score, FromInt(50)) THEN "Good financial management"
  ELSE IF ~FLt(total_score, FromInt(40)) THEN "Needs improvement"
  ELSE "Critical - Review budget immediately"

\* The score interpretation of show_analytics.
interpretation(total_score) ==
  IF ~FLt(total_score, FromInt(80)) THEN "Excellent financial health!"
  ELSE IF ~FLt(total_score, FromInt(60)) THEN "Good financial management"
  ELSE IF ~FLt(total_score, FromInt(40)) THEN "Needs improvement"
  ELSE "Critical - Review budget immediately"

\* The key metrics of show_analytics: the totals, the 50/30/20 targets, the
\* savings rate and the expense ratio.
key_metrics(total_income, total_essentials, total_non_essentials, total_savings) ==
  [total_income   |-> total_income,
   total_savings  |-> total_savings,
   total_expenses |-> FAdd(total_essentials, total_non_essentials),
   target         |-> [essentials     |-> FMul(total_income, EssentialsShare),
                       non_essentials |-> FMul(total_income, NonEssentialsShare),
                       savings        |-> FMul(total_income, SavingsShare)],
   actual         |-> [essentials     |-> total_essentials,
                       non_essentials |-> total_non_essentials,
                       savings        |-> total_savings],
   savings_rate   |-> IF FLt(Zero, total_income)
                      THEN FMul(FDiv(total_savings, total_income), Hundred) ELSE Zero,
   expense_ratio  |-> IF FLt(Zero, total_income)
                      THEN FMul(FDiv(FAdd(total_essentials, total_non_essentials),
                                     total_income), Hundred)
                      ELSE Zero]

\* One statement after another: next applied to the value that the
\* statement before it left.
Then(value, next(_)) == CHOOSE r \in {next(v) : v \in {value}} : TRUE

\* Python's sum over floats: each value added in turn to the running sum,
\* which starts at 0.
RECURSIVE sum_values(_)
sum_values(values) ==
  IF values = << >> THEN Zero
  ELSE FAdd(sum_values(SubSeq(values, 1, Len(values) - 1)), values[Len(values)])

\* The financial health score: the components, their sum in the order of
\* the dict, and its interpretation.
health_score(scores) ==
  [score_components |-> scores,
   total_score      |-> sum_values(<<scores.savings_rate, scores.budget_adherence,
                                     scores.emergency_fund, scores.expense_control>>),
   interpretation   |-> interpretation(sum_values(<<scores.savings_rate,
                                                    scores.budget_adherence,
                                                    scores.emergency_fund,
                                                    scores.expense_control>>))]

\* What show_analytics shows for the key metrics m: the metrics, the
\* variance indicator of each category, and the financial health score,
\* whose variance is the one the loop over the categories ends with.
analytics(m) ==
  m @@ [variance      |-> [c \in DOMAIN m.target |-> variance(m.actual[c], m.target[c])],
        variance_text |-> [c \in DOMAIN m.target |->
                             variance_text(variance(m.actual[c], m.target[c]))]]
    @@ CHOOSE health \in
         {Then(score_components(m.savings_rate, v, m.total_savings, m.total_expenses,
                                m.expense_ratio),
               health_score) :
            v \in {variance(m.actual.savings, m.target.savings)}} : TRUE

\* The recommendations without the rule on the outstanding bills.
recommendations_without_bills_rule(m, bills_data) ==
  LET advice ==
           (IF FLt(m.savings_rate, FromInt(20))
            THEN <<"Increase your savings rate to reach the 20% target">> ELSE <<>>)
        \o (IF FGt(m.actual.essentials, m.target.essentials)
            THEN <<"Review essential expenses - you're over the 50% target">> ELSE <<>>)
        \o (IF FGt(m.actual.non_essentials, m.target.non_essentials)
            THEN <<"Reduce non-essential spending to stay within 30% budget">> ELSE <<>>)
        \o (IF FLt(m.total_savings, FMul(m.total_expenses, FromInt(3)))
            THEN <<"Build emergency fund to cover 3-6 months of expenses">> ELSE <<>>)
  IN IF advice = <<>> THEN <<"Great job! Your budget is well-balanced">> ELSE advice

\* The recommendations of show_analytics for the key metrics m and the
\* bills: one advisory appended per rule that holds, in the order of the
\* rules, and the affirming message when none was appended.
recommendations(m, bills_data) ==
  LET advice ==
           (IF FLt(m.savings_rate, FromInt(20))
            THEN <<"Increase your savings rate to reach the 20% target">> ELSE <<>>)
        \o (IF FGt(m.actual.essentials, m.target.essentials)
            THEN <<"Review essential expenses - you're over the 50% target">> ELSE <<>>)
        \o (IF FGt(m.actual.non_essentials, m.target.non_essentials)
            THEN <<"Reduce non-essential spending to stay within 30% budget">> ELSE <<>>)
        \o (IF Len(SelectSeq(bills_data.rows, LAMBDA row : row.Status = "Unpaid")) > 0
            THEN <<"Pay outstanding bills to avoid late fees">> ELSE <<>>)
        \o (IF FLt(m.total_savings, FMul(m.total_expenses, FromInt(3)))
            THEN <<"Build emergency fund to cover 3-6 months of expenses">> ELSE <<>>)
  IN IF advice = <<>> THEN <<"Great job! Your budget is well-balanced">> ELSE advice

\* show_analytics: the bills and the four totals first, then the metrics
\* from them and what is shown for the metrics.
show_analytics(s) ==
  CHOOSE shown \in
    {CHOOSE page \in {analytics(m) @@ [recommendations |-> recommendations(m, bills_data)] :
                        m \in {key_metrics(total_income, total_essentials,
                                           total_non_essentials, total_savings)}} : TRUE :
       bills_data           \in {get_bills_data(s).df},
       total_income         \in {total(get_income_data(s).df, "Amount")},
       total_essentials     \in {total(get_essentials_data(s).df, "Actual")},
       total_non_essentials \in {total(get_non_essentials_data(s).df, "Amount")},
       total_savings        \in {total(get_savings_data(s).df, "Deposit")}} : TRUE


\* ---------------------------------------------------- ChartManager (charts)
\* A figure is [text] when it only carries a message and [plot] when it
\* plots a series.

\* create_non_essentials_chart: the daily sums of all the rows and their
\* running total (sort_values('Date') finds the groups in order already).
create_non_essentials_chart(non_essentials_data) ==
  IF empty(non_essentials_data) THEN [text |-> "No non-essentials data available"]
  ELSE [plot |-> cumsum(groupby_sum(non_essentials_data.rows), "Amount")]

\* create_spending_trend_chart(data, days) on the day today: the daily sums
\* merged into the complete range of dates, missing ones filled with 0.
create_spending_trend_chart(non_essentials_data, today, days) ==
  LET end_date   == today
      start_date == end_date - days
      data       == between(non_essentials_data.rows, start_date, end_date)
      daily_spending == groupby_sum(data)
      amount(d) == IF \E i \in DOMAIN daily_spending : daily_spending[i].Date = d
                   THEN sum(SelectSeq(daily_spending, LAMBDA r : r.Date = d), "Amount")
                   ELSE 0
  IN IF empty(non_essentials_data) THEN [text |-> "No spending data available"]
     ELSE IF data = <<>>
          THEN [text |-> "No spending data for last " \o ToString(days) \o " days"]
     ELSE [plot |-> [i \in 1..(end_date - start_date + 1) |->
                       [Date |-> start_date + i - 1, Amount |-> amount(start_date + i - 1)]]]


\* -------------------------------------------------------- SettingsManager
\* The Python values a settings map holds, as records of one shape: the
\* type, the text of a str (of a bool, what str() gives), the number of an
\* int, the items of a list of str.
Py(type, text, n, items) == [type |-> type, text |-> text, n |-> n, items |-> items]

PyNone == Py("NoneType", "None", 0, <<>>)

\* float('nan'), what pandas reads from an empty cell.
PyNaN == Py("float", "nan", 0, <<>>)

PyStr(text) == Py("str", text, 0, <<>>)

PyBool(b) == Py("bool", IF b THEN "True" ELSE "False", 0, <<>>)

PyInt(n) == Py("int", ToString(n), n, <<>>)

PyList(items) == Py("list", "", 0, items)

\* A dict without keys.
EmptyDict == [key \in {} |-> PyNone]

\* dict.update: the entries of other over those of d.
update(d, other) == other @@ d

\* The values of the model: what the callers below pass, and what reading
\* the files gives for them.
Themes == {"dark", "light"}

Frequencies == {7, 30}

CategoryLists ==
  {<<"Salary", "Other">>, <<"Salary", "Other", "Gift">>, <<"Gift">>, <<"Gift", "Salary">>}

PyValues ==
  {PyNone, PyNaN, PyBool(TRUE), PyBool(FALSE)}
  \cup {PyStr(text) : text \in Themes \cup {"2024-01-05", "x", "true", "7"}}
  \cup {PyInt(n) : n \in Frequencies}
  \cup {PyList(items) : items \in CategoryLists}

\* get_default_settings, one key of each kind the manager tells apart: a
\* str, a bool, an int, the None of last_backup and a list of categories
\* (its first and last item).  The keys left out are handled like the one
\* of their kind here.
get_default_settings ==
  [theme             |-> PyStr("dark"),
   auto_save         |-> PyBool(TRUE),
   backup_frequency  |-> PyInt(7),
   last_backup       |-> PyNone,
   income_categories |-> PyList(<<"Salary", "Other">>)]

\* ", ".join of the quoted items.
RECURSIVE join(_)
join(items) ==
  IF items = <<>> THEN ""
  ELSE IF Len(items) = 1 THEN "\"" \o items[1] \o "\""
  ELSE join(SubSeq(items, 1, Len(items) - 1)) \o ", \"" \o items[Len(items)] \o "\""

\* json.dumps(value): the JSON text of a value (white space aside, also
\* what json.dump(settings, f, indent=4, default=str) writes for it).
json_dumps(value) ==
  CASE value.type = "str"      -> "\"" \o value.text \o "\""
    [] value.type = "bool"     -> IF value.text = "True" THEN "true" ELSE "false"
    [] value.type = "int"      -> ToString(value.n)
    [] value.type = "NoneType" -> "null"
    [] value.type = "float"    -> "NaN"
    [] value.type = "list"     -> "[" \o join(value.items) \o "]"

\* json.loads(text) on the texts of the model: the value whose JSON text
\* it is, and JSONDecodeError for any other text.
json_loads(text) ==
  IF \E value \in PyValues : json_dumps(value) = text
  THEN Value(CHOOSE value \in PyValues : json_dumps(value) = text)
  ELSE [raised |-> TRUE, value |-> PyNone]

\* int(text) on the texts of the model.
int(text) ==
  IF \E n \in Frequencies : ToString(n) = text
  THEN Value(CHOOSE n \in Frequencies : ToString(n) = text)
  ELSE ValueError

\* str.lower on the texts of the model.
lower(text) ==
  CASE text = "True"  -> "true"
    [] text = "False" -> "false"
    [] OTHER          -> text

\* A settings file: "absent", "ok" with a text per key (the JSON text of
\* the value in settings.json, the cell of the Value column in
\* settings.csv), or "cut": there, and not to be parsed.
File(state, text) == [state |-> state, text |-> text]

Absent == File("absent", EmptyDict)

\* settings.csv as initialize_csv_files and reset_all_data write it: the
\* header Key,Value and no row.
HeaderOnly == File("ok", EmptyDict)

Cut == File("cut", EmptyDict)

\* The cell DataFrame.to_csv writes for a value of the Value column: a str
\* as it is, a number in digits, nothing for None and NaN.
csv_cell(value) ==
  CASE value.type = "str"      -> value.text
    [] value.type = "int"      -> ToString(value.n)
    [] value.type = "NoneType" -> ""
    [] value.type = "float"    -> ""
    [] OTHER                   -> value.text

\* What pd.read_csv gives for a cell of a column that holds a text which
\* is no number: NaN for an empty cell, the text as a str otherwise.
read_value(cell) == IF cell = "" THEN PyNaN ELSE PyStr(cell)

\* The value save_settings_to_csv puts in the Value column: lists as JSON
\* text, bools as 'true' / 'false', anything else as it is.
csv_value(value) ==
  CASE value.type = "list" -> PyStr(json_dumps(value))
    [] value.type = "bool" -> PyStr(lower(value.text))
    [] OTHER               -> value

\* The keys load_settings_from_csv converts to bool, to int and to list
\* (those of them the model has).
BoolKeys == {"auto_save"}

IntKeys == {"backup_frequency"}

ListKeys == {"income_categories"}

\* What a load returns: the dict, and whether the list of categories in it
\* is the list object of default_settings itself (dict.copy() is shallow).
Loaded(settings, shared) == [settings |-> settings, shared |-> shared]

\* The body of the loop of load_settings_from_csv for the row of a key:
\* the value it stores for the key, or the exception it raises.
from_csv(c, key, value) ==
  IF key \in BoolKeys THEN Value(PyBool(lower(value.text) = "true"))
  ELSE IF key \in IntKeys
       THEN IF value.type = "str" /\ ~int(value.text).raised
            THEN Value(PyInt(int(value.text).value))
            ELSE [raised |-> TRUE, value |-> PyNone]
  ELSE IF key \in ListKeys
       THEN IF value.type = "str" /\ ~json_loads(value.text).raised
            THEN json_loads(value.text)
            ELSE Value(c.default_settings[key])
  ELSE Value(value)

\* load_settings_from_csv on the manager and files c.
load_settings_from_csv(c) ==
  IF c.csv.state # "ok" THEN Loaded(c.default_settings, TRUE)
  ELSE LET rows == c.csv.text
           row == [key \in DOMAIN rows |-> from_csv(c, key, read_value(rows[key]))]
       IN IF \E key \in DOMAIN rows : row[key].raised THEN Loaded(c.default_settings, TRUE)
          ELSE Loaded(update(c.default_settings, [key \in DOMAIN rows |-> row[key].value]),
                      \A key \in ListKeys :
                        \/ key \notin DOMAIN rows
                        \/ read_value(rows[key]).type # "str"
                        \/ json_loads(rows[key]).raised)

\* load_settings on the manager and files c.
load_settings(c) ==
  IF c.json.state = "ok"
  THEN IF \E key \in DOMAIN c.json.text : json_loads(c.json.text[key]).raised
       THEN Loaded(c.default_settings, TRUE)
       ELSE Loaded(update(c.default_settings,
                          [key \in DOMAIN c.json.text |-> json_loads(c.json.text[key]).value]),
                   \A key \in ListKeys : key \notin DOMAIN c.json.text)
  ELSE IF c.json.state = "absent" THEN load_settings_from_csv(c)
  ELSE Loaded(c.default_settings, TRUE)

\* How the writes of save_settings can end: both succeed; opening
\* settings.json fails; json.dump fails after the open truncated the
\* file; opening settings.csv fails; to_csv fails after the truncation.
SaveOutcomes == {"ok", "json_open", "json_cut", "csv_open", "csv_cut"}

\* What a call of the manager leaves: the manager and files, whether it
\* raised, how its write ended and what it returned.
Left(c, raised, write, value) == [sm |-> c, raised |-> raised, write |-> write, value |-> value]

\* save_settings_to_csv: the exception of a failed write is printed and
\* swallowed.
save_settings_to_csv(c, settings, w) ==
  CASE w = "csv_open" -> c
    [] w = "csv_cut"  -> [c EXCEPT !.csv = Cut]
    [] OTHER          ->
         [c EXCEPT !.csv = File("ok", [key \in DOMAIN settings |->
                                         csv_cell(csv_value(settings[key]))])]

\* save_settings(settings): json.dump to settings.json, then
\* save_settings_to_csv; a failure of the former is raised again.
save_settings(c, settings, w) ==
  CASE w = "json_open" -> Left(c, TRUE, w, FALSE)
    [] w = "json_cut"  -> Left([c EXCEPT !.json = Cut], TRUE, w, FALSE)
    [] OTHER           ->
         Left(save_settings_to_csv(
                [c EXCEPT !.json = File("ok", [key \in DOMAIN settings |->
                                                 json_dumps(settings[key])])],
                settings, w),
              FALSE, w, FALSE)

set_setting(c, key, value, w) ==
  save_settings(c, update(load_settings(c).settings, key :> value), w)

reset_settings(c, w) == save_settings(c, c.default_settings, w)

\* The category_map of get_category_suggestions and add_custom_category
\* (the entry of the list the model has).
category_map == [income |-> "income_categories"]

\* get_category_suggestions: the list, and whether it is the list object
\* of default_settings.
get_category_suggestions(c, category_type) ==
  IF category_type \in DOMAIN category_map
  THEN [categories |-> load_settings(c).settings[category_map[category_type]],
        shared     |-> load_settings(c).shared]
  ELSE [categories |-> PyList(<<>>), shared |-> FALSE]

\* add_custom_category: categories.append changes the list in place, the
\* list of default_settings when the load handed that out.
add_custom_category(c, category_type, category_name, w) ==
  LET got == get_category_suggestions(c, category_type) IN
    IF got.categories.type # "list" THEN Left(c, TRUE, "none", FALSE)
    ELSE IF \E i \in 1..Len(got.categories.items) : got.categories.items[i] = category_name
         THEN Left(c, FALSE, "none", FALSE)
    ELSE IF category_type \notin DOMAIN category_map THEN Left(c, FALSE, "none", FALSE)
    ELSE LET key        == category_map[category_type]
             categories == PyList(Append(got.categories.items, category_name))
         IN set_setting(IF got.shared THEN [c EXCEPT !.default_settings[key] = categories]
                        ELSE c,
                        key, categories, w)

\* import_settings(import_path): f is the file at the path and ext the
\* ending of the path.
import_settings(c, ext, f, w) ==
  IF f.state = "absent" THEN Left(c, TRUE, "none", FALSE)
  ELSE IF ext \notin {"json", "csv"} THEN Left(c, TRUE, "none", FALSE)
  ELSE IF f.state # "ok" THEN Left(c, TRUE, "none", FALSE)
  ELSE IF ext = "json" /\ \E key \in DOMAIN f.text : json_loads(f.text[key]).raised
       THEN Left(c, TRUE, "none", FALSE)
  ELSE LET imported_settings ==
             [key \in DOMAIN f.text |->
                IF ext = "json" THEN json_loads(f.text[key]).value
                ELSE IF read_value(f.text[key]).type = "str" /\ ~json_loads(f.text[key]).raised
                     THEN json_loads(f.text[key]).value
                     ELSE read_value(f.text[key])]
       IN save_settings(c, update(load_settings(c).settings, imported_settings), w)

\* migrate_settings: returns updated.
migrate_settings(c, w) ==
  LET settings == load_settings(c).settings
      missing  == {key \in DOMAIN c.default_settings : key \notin DOMAIN settings}
  IN IF missing # {}
     THEN [save_settings(c, update(settings, [key \in missing |-> c.default_settings[key]]), w)
             EXCEPT !.value = TRUE]
     ELSE Left(c, FALSE, "none", FALSE)

\* self.settings of the application as a dict of its own: the list it
\* shares with default_settings is what that list is now.
app_settings(c) ==
  IF c.shared THEN update(c.settings, [key \in ListKeys |-> c.default_settings[key]])
  ELSE c.settings

\* apply_theme_change: the new theme goes into self.settings, the dict
\* read when the application started, and that dict is saved.
apply_theme_change(c, new_theme, w) ==
  save_settings([c EXCEPT !.settings = update(c.settings, "theme" :> PyStr(new_theme))],
                update(app_settings(c), "theme" :> PyStr(new_theme)), w)

\* restore_data: the data directory is replaced by the backup directory
\* and a new DataManager writes the header of settings.csv when the backup
\* has none; self.settings and the SettingsManager stay as they are.
restore_data(c, backup) ==
  Left([c EXCEPT !.json = backup.json,
                 !.csv = IF backup.csv.state = "absent" THEN HeaderOnly ELSE backup.csv],
       FALSE, "none", FALSE)

\* BudgetTrackerApp.__init__ on a data directory with these two settings
\* files: DataManager() writes the header of a missing settings.csv,
\* SettingsManager() takes the defaults, and self.settings is loaded.
Started(json, csv) ==
  LET c == [json |-> json,
            csv  |-> IF csv.state = "absent" THEN HeaderOnly ELSE csv,
            default_settings |-> get_default_settings,
            settings |-> EmptyDict, shared |-> FALSE]
  IN [c EXCEPT !.settings = load_settings(c).settings, !.shared = load_settings(c).shared]


\* ------------------------------------------------------------ the machine
store == [files |-> files, unreadable |-> unreadable]

RECURSIVE SumLen(_, _)
SumLen(f, ks) ==
  IF ks = {} THEN 0 ELSE LET k == CHOOSE x \in ks : TRUE IN Len(f[k]) + SumLen(f, ks \ {k})

TotalRows == SumLen(files, Kinds)

\* The ways the write of a call can end: r is what the call does when its
\* write succeeds.  A call that writes nothing has nothing to fail, and the
\* environment fails a write only MaxFaults times.
Outcomes(r, k) ==
  IF r.write = "none" \/ faults >= MaxFaults
  THEN {w \in WriteOutcomes : w.mode = "ok"}
  ELSE {w \in WriteOutcomes : w.kept <= Len(r.files[k])}

Failed(r) == IF r.write \in {"open", "torn"} THEN 1 ELSE 0

\* No call is running: the main loop waits for the next event.
Idle ==
  [layer |-> "idle", op |-> "none", kind |-> "none", index |-> 0, form |-> <<>>,
   args |-> <<>>, call |-> "none", raised |-> FALSE, escaped |-> FALSE,
   notif |-> "none", write |-> "none"]

\* DataManager.__init__ on an empty data directory: five header-only files.
Init ==
  /\ files = [k \in Kinds |-> <<>>]
  /\ unreadable = [k \in Kinds |-> FALSE]
  /\ faults = 0
  /\ last = Idle
  /\ sm = Started(Absent, Absent)

\* The settings files after a call that left r: reset_all_data is the one
\* call of the DataManager that writes one of them.
settings_files(c, r) ==
  IF "settings" \notin DOMAIN r THEN c
  ELSE CASE r.settings = "header" -> [c EXCEPT !.csv = HeaderOnly]
         [] r.settings = "cut"    -> [c EXCEPT !.csv = Cut]
         [] OTHER                 -> c

\* A direct call of a DataManager method.
Called(op, k, index, a, r) ==
  /\ files' = r.files
  /\ unreadable' = r.unreadable
  /\ faults' = faults + Failed(r)
  /\ sm' = settings_files(sm, r)
  /\ last' = [layer |-> "dm", op |-> op, kind |-> k, index |-> index, form |-> <<>>,
              args |-> a, call |-> op, raised |-> r.raised, escaped |-> r.raised,
              notif |-> "none", write |-> r.write]

\* A run of a handler of the application.
Ran(op, k, index, f, r) ==
  /\ files' = r.files
  /\ unreadable' = r.unreadable
  /\ faults' = faults + Failed(r)
  /\ sm' = settings_files(sm, r)
  /\ last' = [layer |-> "ui", op |-> op, kind |-> k, index |-> index, form |-> f,
              args |-> r.args, call |-> r.call, raised |-> r.raised, escaped |-> r.escaped,
              notif |-> r.notif, write |-> r.write]

DataManagerAdd ==
  /\ last = Idle
  /\ TotalRows < MaxEntries
  /\ \E k \in Kinds : \E a \in AddArgs(k) : \E w \in Outcomes(add(store, k, a, Ok), k) :
       Called("add", k, 0, a, add(store, k, a, w))

DataManagerDelete ==
  /\ last = Idle
  /\ \E k \in Kinds : \E index \in -1..MaxEntries :
     \E w \in Outcomes(delete(store, k, index, Ok), k) :
       Called("delete", k, index, <<>>, delete(store, k, index, w))

DataManagerToggle ==
  /\ last = Idle
  /\ \E index \in -1..MaxEntries :
     \E w \in Outcomes(toggle_bill_status(store, index, Ok), "bills") :
       Called("toggle", "bills", index, <<>>, toggle_bill_status(store, index, w))

\* The Add button of the page of kind k.
AppAdd ==
  /\ last = Idle
  /\ TotalRows < MaxEntries
  /\ \E k \in Kinds : \E f \in Forms(k) : \E w \in Outcomes(App_add(store, k, f, Ok), k) :
       Ran("add", k, 0, f, App_add(store, k, f, w))

\* The Delete button of a row the page of kind k displays.
AppDelete ==
  /\ last = Idle
  /\ \E k \in Kinds : \E index \in 0..(len(list(store, k).df) - 1) : \E confirm \in BOOLEAN :
     \E w \in Outcomes(App_delete(store, k, index, confirm, Ok), k) :
       Ran("delete", k, index, [confirm |-> confirm], App_delete(store, k, index, confirm, w))

\* The Mark Paid / Mark Unpaid button of a displayed bill.
AppToggle ==
  /\ last = Idle
  /\ \E index \in 0..(len(get_bills_data(store).df) - 1) :
     \E w \in Outcomes(App_toggle_bill_status(store, index, Ok), "bills") :
       Ran("toggle", "bills", index, <<>>, App_toggle_bill_status(store, index, w))

\* How the writes of one reset_all_data call can end: all succeed, or the
\* write of the file at position `at` of ResetOrder fails.
ResetFaults ==
  {[at |-> 0, w |-> Ok]}
  \cup (IF faults >= MaxFaults THEN {}
        ELSE {[at |-> i, w |-> w] :
                i \in 1..Len(ResetOrder),
                w \in {x \in WriteOutcomes : x.mode # "ok" /\ x.kept = 0}})

\* A direct call of reset_all_data; index records the rows stored before.
DataManagerReset ==
  /\ last = Idle
  /\ \E x \in ResetFaults :
       Called("reset", "all", TotalRows, <<>>, reset_all_data(store, x.at, x.w))

\* The Reset All Data button of the settings page.
AppReset ==
  /\ last = Idle
  /\ \E confirm \in BOOLEAN : \E final \in BOOLEAN :
     \E x \in (IF confirm /\ final THEN ResetFaults ELSE {[at |-> 0, w |-> Ok]}) :
       Ran("reset", "all", TotalRows, [confirm |-> confirm, final |-> final],
           App_reset_data(store, confirm, final, x.at, x.w))

\* A caller reads the collection of kind k.
DataManagerList ==
  /\ last = Idle
  /\ \E k \in Kinds :
       /\ UNCHANGED <<files, unreadable, faults, sm>>
       /\ last' = [layer |-> "dm", op |-> "list", kind |-> k, index |-> 0, form |-> <<>>,
                   args |-> list(store, k).df, call |-> "list",
                   raised |-> list(store, k).raised, escaped |-> list(store, k).raised,
                   notif |-> "none", write |-> "none"]

\* The user opens the page of kind k.
AppShow ==
  /\ last = Idle
  /\ \E k \in Kinds : Ran("show", k, 0, <<>>, refresh_list(store, k))

\* The call returns (or its exception is reported) and the program waits
\* for the next one.
Returned ==
  /\ last # Idle
  /\ last' = Idle
  /\ UNCHANGED <<files, unreadable, faults, sm>>

Next ==
  \/ DataManagerAdd
  \/ DataManagerDelete
  \/ DataManagerToggle
  \/ AppAdd
  \/ AppDelete
  \/ AppToggle
  \/ DataManagerReset
  \/ AppReset
  \/ DataManagerList
  \/ AppShow
  \/ Returned

Spec == Init /\ [][Next]_vars


\* ------------------------------------------------- the budget calculator
\* The calculator reads the ledger and changes nothing: its methods are run
\* on ledgers drawn from the rows below, at most MaxRows of a kind.
MaxRows == 2

\* The sequences of at most n elements of S.
Seqs(S, n) == UNION {[1..k -> S] : k \in 0..n}

\* A ledger of at most MaxRows rows of each kind, drawn from the rows given,
\* with no bills, every file readable and no call under way.
Holding(income, essentials, non_essentials, savings) ==
  /\ files \in {[income         |-> i,
                  essentials     |-> e,
                  bills          |-> <<>>,
                  non_essentials |-> n,
                  savings        |-> v] :
                   i \in Seqs(income, MaxRows),
                   e \in Seqs(essentials, MaxRows),
                   n \in Seqs(non_essentials, MaxRows),
                   v \in Seqs(savings, MaxRows)}
  /\ unreadable = [k \in Kinds |-> FALSE]
  /\ faults = 0
  /\ last = Idle
  /\ sm = Started(Absent, Absent)

BudgetInit ==
  Holding({[Description |-> <<"a">>, Amount |-> x, Date |-> 1] : x \in {31, 1000}},
          {[Category |-> <<"a">>, Expected |-> 500, Actual |-> 600]},
          {[Expense |-> <<"a">>, Amount |-> 200, Date |-> 1, Notes |-> <<>>]},
          {[Deposit |-> 200, Date |-> 1]})

\* A call of a method that only reads: what it returned is in args.
Computed(layer, op, result) ==
  /\ UNCHANGED <<files, unreadable, faults, sm>>
  /\ last' = [Idle EXCEPT !.layer = layer, !.op = op, !.call = op, !.args = result]

BudgetAllocations ==
  /\ last = Idle
  /\ Computed("dm", "calculate_budget_allocations", calculate_budget_allocations(store))

BudgetActuals ==
  /\ last = Idle
  /\ Computed("dm", "calculate_actual_spending", calculate_actual_spending(store))

BudgetSummary ==
  /\ last = Idle
  /\ Computed("dm", "get_budget_summary", get_budget_summary(store))

BudgetNext ==
  \/ BudgetAllocations
  \/ BudgetActuals
  \/ BudgetSummary
  \/ Returned

BudgetSpec == BudgetInit /\ [][BudgetNext]_vars


\* ------------------------------------------------------- the analytics
\* The analytics page reads the ledger and changes nothing.  The ledgers hold
\* amounts the store accepts, a negative income and a negative deposit among
\* them, and a bill or none.
\* The bills of a ledger of the analytics: at most MaxBills of them.
MaxBills == 1

AnalyticsInit ==
  /\ files \in {[income         |-> i,
                  essentials     |-> e,
                  bills          |-> b,
                  non_essentials |-> n,
                  savings        |-> v] :
                   i \in Seqs({[Description |-> <<"a">>, Amount |-> x, Date |-> 1] :
                                 x \in {1000, -50}}, MaxRows),
                   e \in Seqs({[Category |-> <<"a">>, Expected |-> 500, Actual |-> 600]},
                              MaxRows),
                   b \in Seqs({[BillName |-> <<"a">>, AmountDue |-> 100, DueDate |-> 1,
                                Status |-> st] : st \in {"Unpaid", "Paid"}}, MaxBills),
                   n \in Seqs({[Expense |-> <<"a">>, Amount |-> 100, Date |-> 1,
                                Notes |-> <<>>]}, MaxRows),
                   v \in Seqs({[Deposit |-> x, Date |-> 1] : x \in {200, -50}}, MaxRows)}
  /\ unreadable = [k \in Kinds |-> FALSE]
  /\ faults = 0
  /\ last = Idle
  /\ sm = Started(Absent, Absent)

ShowAnalytics ==
  /\ last = Idle
  /\ Computed("app", "show_analytics", show_analytics(store))

AnalyticsNext ==
  \/ ShowAnalytics
  \/ Returned

AnalyticsSpec == AnalyticsInit /\ [][AnalyticsNext]_vars


\* ----------------------------------------------------------- the trends
\* The trends are read from ledgers whose rows are dated on days 1 and 3;
\* the clock says day 5 or day 6 and the window is of at most MaxDays days.
MaxDays == 4

Clock == {5, 6}

TrendsInit ==
  Holding({[Description |-> <<"a">>, Amount |-> 10, Date |-> 3]},
          {},
          {[Expense |-> <<"a">>, Amount |-> x, Date |-> d, Notes |-> <<>>] :
             x \in {10, 20}, d \in {1, 3}},
          {[Deposit |-> 10, Date |-> 1], [Deposit |-> 20, Date |-> 3]})

\* The clock and the argument of the call are kept with what it returned.
GetSpendingTrends ==
  /\ last = Idle
  /\ \E today \in Clock, days \in 1..MaxDays :
       Computed("dm", "get_spending_trends",
                [today |-> today, days |-> days,
                 trends |-> get_spending_trends(store, today, days)])

CreateSpendingTrendChart ==
  /\ last = Idle
  /\ \E today \in Clock, days \in 1..MaxDays :
       Computed("charts", "create_spending_trend_chart",
                [today |-> today, days |-> days,
                 figure |-> create_spending_trend_chart(get_non_essentials_data(store).df,
                                                        today, days)])

\* show_non_essentials draws the chart of the rows it lists when there are
\* any.
CreateNonEssentialsChart ==
  /\ last = Idle
  /\ ~empty(get_non_essentials_data(store).df)
  /\ Computed("charts", "create_non_essentials_chart",
              [figure |-> create_non_essentials_chart(get_non_essentials_data(store).df)])

TrendsNext ==
  \/ GetSpendingTrends
  \/ CreateSpendingTrendChart
  \/ CreateNonEssentialsChart
  \/ Returned

TrendsSpec == TrendsInit /\ [][TrendsNext]_vars


\* ------------------------------------------------------ the bill queries
\* The queries read the bills and change nothing.  The bills are dated
\* around the day of the query, 2024-01-05 as day 5: overdue, due that day,
\* due within a week, due on its last day and due after it.
DueDates == {1, 5, 10, 12, 13}

Today == 5

\* The horizons asked for: none, and the default of a week.
Horizons == {0, 7}

BillsInit ==
  /\ files \in {[k \in Kinds |-> IF k = "bills" THEN b ELSE <<>>] :
                  b \in Seqs({[BillName |-> <<"a">>, AmountDue |-> 100, DueDate |-> d,
                               Status |-> st] : d \in DueDates, st \in Statuses},
                             MaxRows)}
  /\ unreadable = [k \in Kinds |-> FALSE]
  /\ faults = 0
  /\ last = Idle
  /\ sm = Started(Absent, Absent)

GetOverdueBills ==
  /\ last = Idle
  /\ Computed("dm", "get_overdue_bills", [today |-> Today, days |-> 0,
                                          rows |-> get_overdue_bills(store, Today).rows])

GetUpcomingBills ==
  /\ last = Idle
  /\ \E days \in Horizons :
       Computed("dm", "get_upcoming_bills",
                [today |-> Today, days |-> days,
                 rows |-> get_upcoming_bills(store, Today, days).rows])

BillsNext ==
  \/ GetOverdueBills
  \/ GetUpcomingBills
  \/ Returned

BillsSpec == BillsInit /\ [][BillsNext]_vars

\* ------------------------------------------------------------ the settings
\* The calls of the SettingsManager, the two handlers of the application
\* that replace or write the settings files, and reset_all_data.

\* A settings map a user of an earlier version or a caller may have: every
\* key of the defaults with another value, and a key of its own.
Customised ==
  [theme             |-> PyStr("light"),
   auto_save         |-> PyBool(FALSE),
   backup_frequency  |-> PyInt(30),
   last_backup       |-> PyStr("2024-01-05"),
   income_categories |-> PyList(<<"Gift">>),
   note              |-> PyStr("x")]

\* The maps passed to save_settings: the defaults, the one above, and two
\* that lack keys of the defaults.  Each holds a theme, as every map the
\* application saves does.
SettingsMaps ==
  {get_default_settings, Customised, [theme |-> PyStr("light")],
   [theme |-> PyStr("dark"), note |-> PyStr("x")]}

SetSettingArgs ==
  {[key |-> "theme", value |-> PyStr("light")],
   [key |-> "auto_save", value |-> PyBool(FALSE)],
   [key |-> "last_backup", value |-> PyStr("2024-01-05")],
   [key |-> "note", value |-> PyStr("x")]}

CategoryTypes == {"income", "bills"}

CategoryNames == {"Gift", "Salary"}

\* The two settings files as save_settings writes them for a map.
Saved(settings) ==
  [json |-> File("ok", [key \in DOMAIN settings |-> json_dumps(settings[key])]),
   csv  |-> File("ok", [key \in DOMAIN settings |-> csv_cell(csv_value(settings[key]))])]

\* The files import_settings is pointed at.
ImportFiles ==
  {[ext |-> "json", f |-> Absent],
   [ext |-> "json", f |-> Cut],
   [ext |-> "json", f |-> File("ok", [theme |-> "\"light\"", note |-> "\"x\""])],
   [ext |-> "csv",  f |-> File("ok", [theme |-> "light", backup_frequency |-> "30"])],
   [ext |-> "txt",  f |-> File("ok", [theme |-> "light"])]}

\* The directories restore_data is pointed at: backups of a data directory
\* without settings.json, and of one whose settings were saved.
Backups == {[json |-> Absent, csv |-> HeaderOnly], Saved(Customised)}

\* The application starts on a new data directory, or on one of an earlier
\* version that holds settings.csv alone.
SettingsInit ==
  /\ files = [k \in Kinds |-> <<>>]
  /\ unreadable = [k \in Kinds |-> FALSE]
  /\ faults = 0
  /\ last = Idle
  /\ sm \in {Started(Absent, Absent), Started(Absent, Saved(Customised).csv)}

\* How the writes of one call of the manager can end.
SettingsOutcomes == IF faults >= MaxFaults THEN {"ok"} ELSE SaveOutcomes

\* A call of the SettingsManager (layer "sm") or of a handler of the
\* application (layer "ui") that left r.
SettingsCalled(layer, op, a, r) ==
  /\ sm' = r.sm
  /\ faults' = faults + (IF r.write \in SaveOutcomes \ {"ok"} THEN 1 ELSE 0)
  /\ UNCHANGED <<files, unreadable>>
  /\ last' = [Idle EXCEPT !.layer = layer, !.op = op, !.call = op,
                          !.args = a @@ [returned |-> r.value],
                          !.raised = r.raised, !.escaped = r.raised, !.write = r.write]

LoadSettings ==
  /\ last = Idle
  /\ Computed("sm", "load_settings", load_settings(sm).settings)

LoadSettingsFromCsv ==
  /\ last = Idle
  /\ Computed("sm", "load_settings_from_csv", load_settings_from_csv(sm).settings)

SaveSettings ==
  /\ last = Idle
  /\ \E settings \in SettingsMaps : \E w \in SettingsOutcomes :
       SettingsCalled("sm", "save_settings", [settings |-> settings],
                      save_settings(sm, settings, w))

SetSetting ==
  /\ last = Idle
  /\ \E a \in SetSettingArgs : \E w \in SettingsOutcomes :
       SettingsCalled("sm", "set_setting", a, set_setting(sm, a.key, a.value, w))

ResetSettings ==
  /\ last = Idle
  /\ \E w \in SettingsOutcomes :
       SettingsCalled("sm", "reset_settings", <<>>, reset_settings(sm, w))

AddCustomCategory ==
  /\ last = Idle
  /\ \E category_type \in CategoryTypes : \E category_name \in CategoryNames :
     \E w \in SettingsOutcomes :
       SettingsCalled("sm", "add_custom_category",
                      [category_type |-> category_type, category_name |-> category_name],
                      add_custom_category(sm, category_type, category_name, w))

ImportSettings ==
  /\ last = Idle
  /\ \E a \in ImportFiles : \E w \in SettingsOutcomes :
       SettingsCalled("sm", "import_settings", a, import_settings(sm, a.ext, a.f, w))

MigrateSettings ==
  /\ last = Idle
  /\ \E w \in SettingsOutcomes :
       SettingsCalled("sm", "migrate_settings", <<>>, migrate_settings(sm, w))

\* The Apply Theme button of the settings page.
ApplyThemeChange ==
  /\ last = Idle
  /\ \E new_theme \in Themes : \E w \in SettingsOutcomes :
       SettingsCalled("ui", "apply_theme_change", [new_theme |-> new_theme],
                      apply_theme_change(sm, new_theme, w))

\* The Restore Data button of the settings page, the directory chosen and
\* the question answered with yes; the five ledger files of the backups
\* hold no rows.
RestoreData ==
  /\ last = Idle
  /\ \E backup \in Backups :
       /\ sm' = restore_data(sm, backup).sm
       /\ files' = [k \in Kinds |-> <<>>]
       /\ unreadable' = [k \in Kinds |-> FALSE]
       /\ UNCHANGED faults
       /\ last' = [Idle EXCEPT !.layer = "ui", !.op = "restore_data", !.call = "restore_data",
                               !.args = backup, !.notif = "success"]

SettingsNext ==
  \/ LoadSettings
  \/ LoadSettingsFromCsv
  \/ SaveSettings
  \/ SetSetting
  \/ ResetSettings
  \/ AddCustomCategory
  \/ ImportSettings
  \/ MigrateSettings
  \/ ApplyThemeChange
  \/ RestoreData
  \/ DataManagerReset
  \/ Returned

SettingsSpec == SettingsInit /\ [][SettingsNext]_vars


\* ------------------------------------------------------------- properties
\* What list(kind) returns before and after a step.
Listed(k) == list(store, k).df.rows

ListedNext(k) == list([files |-> files', unreadable |-> unreadable'], k).df.rows

Count(seq, x) == Cardinality({i \in 1..Len(seq) : seq[i] = x})

\* The same entries, each as often in a as in b.
SameEntries(a, b) ==
  /\ Len(a) = Len(b)
  /\ \A i \in 1..Len(a) : Count(a, a[i]) = Count(b, a[i])

\* seq without its element at position index, counted from 0.
Without(seq, index) == SubSeq(seq, 1, index) \o SubSeq(seq, index + 2, Len(seq))

\* a is b with some elements taken out.
RECURSIVE IsSubsequence(_, _)
IsSubsequence(a, b) ==
  IF a = <<>> THEN TRUE
  ELSE IF b = <<>> THEN FALSE
  ELSE IF Head(a) = Head(b) THEN IsSubsequence(Tail(a), Tail(b))
  ELSE IsSubsequence(a, Tail(b))

\* The other four files are as they were.
OthersUnchanged(k) ==
  \A j \in Kinds \ {k} : files'[j] = files[j] /\ unreadable'[j] = unreadable[j]

\* The entry an add with arguments a is to store, as a later list shows it.
Entry(k, a) ==
  CASE k = "income" ->
         [Description |-> a.description, Amount |-> a.amount, Date |-> to_datetime(a.date).value]
    [] k = "essentials" ->
         [Category |-> a.category, Expected |-> a.expected, Actual |-> a.actual]
    [] k = "bills" ->
         [BillName |-> a.bill_name, AmountDue |-> a.amount_due,
          DueDate |-> to_datetime(a.due_date).value, Status |-> a.status]
    [] k = "non_essentials" ->
         [Expense |-> a.expense, Amount |-> a.amount, Date |-> to_datetime(a.date).value,
          Notes |-> IF a.notes = <<>> THEN NaN ELSE a.notes]
    [] k = "savings" ->
         [Deposit |-> a.deposit, Date |-> to_datetime(a.date).value]

InRange(k, index) == 0 <= index /\ index < Len(Listed(k))

\* C1: a delete(kind, i) that returns, with 0 <= i < length, takes out of
\* list(kind) exactly the entry that list(kind) had at position i: the list
\* afterwards holds the other entries, each as often as before, and is one
\* shorter.
C1_DeleteRemovesListedRow ==
  [][(last'.layer = "dm" /\ last'.op = "delete" /\ ~last'.raised
      /\ InRange(last'.kind, last'.index))
     => /\ SameEntries(ListedNext(last'.kind), Without(Listed(last'.kind), last'.index))
        /\ Len(ListedNext(last'.kind)) = Len(Listed(last'.kind)) - 1]_vars

\* A delete of position 1 of two listed rows has been written.
C1_Witness ==
  /\ last.layer = "dm" /\ last.op = "delete" /\ last.write = "ok"
  /\ last.index = 1 /\ last.kind = "income"
  /\ Len(files["income"]) = 1

\* C2: a delete or toggle_bill_status with a negative position or one that
\* is not below the length of the collection raises nothing and leaves
\* every backing file as it was.
C2_OutOfRangeIsNoOp ==
  [][(last'.layer = "dm" /\ last'.op \in {"delete", "toggle"}
      /\ ~InRange(last'.kind, last'.index))
     => (~last'.raised /\ files' = files /\ unreadable' = unreadable)]_vars

\* A delete at position len of a collection that holds a row has returned.
C2_Witness ==
  /\ last.layer = "dm" /\ last.op = "delete" /\ last.kind = "savings"
  /\ ~unreadable["savings"] /\ Len(files["savings"]) >= 1
  /\ last.index = Len(files["savings"])
  /\ ~last.raised

\* The delete method of the DataManager for a kind.
DeleteOf(k) ==
  CASE k = "income"         -> "delete_income"
    [] k = "essentials"     -> "delete_essential"
    [] k = "bills"          -> "delete_bill"
    [] k = "non_essentials" -> "delete_non_essential"
    [] k = "savings"        -> "delete_savings"

\* C3: a confirmed Delete on the row displayed at position i, for each of
\* the five kinds, performs the store's delete of that kind at position i,
\* and the displayed entry leaves the stored collection (write failures
\* aside).
C3_AppDeleteReachesStore ==
  [][(last'.layer = "ui" /\ last'.op = "delete" /\ last'.form.confirm
      /\ last'.write \notin {"open", "torn"})
     => /\ last'.call = DeleteOf(last'.kind)
        /\ last'.args = <<last'.index>>
        /\ SameEntries(ListedNext(last'.kind), Without(Listed(last'.kind), last'.index))]_vars

\* C4: after an add(kind, fields) that returns, list(kind) holds every entry
\* it held before and the new entry once more (one longer), and the files of
\* the other kinds are unchanged.
C4_AddKeepsAndAppends ==
  [][(last'.op = "add" /\ last'.call # "none" /\ ~last'.raised)
     => /\ SameEntries(ListedNext(last'.kind),
                       Append(Listed(last'.kind), Entry(last'.kind, last'.args)))
        /\ Len(ListedNext(last'.kind)) = Len(Listed(last'.kind)) + 1
        /\ OthersUnchanged(last'.kind)]_vars

\* An add to a collection that held a row has been written.
C4_Witness ==
  /\ last.op = "add" /\ last.write = "ok" /\ last.kind = "non_essentials"
  /\ Len(files["non_essentials"]) = 2

\* C5: toggle_bill_status(i) with 0 <= i < number of bills turns the status
\* of the bill at position i of the due-date-ascending list from Unpaid to
\* Paid or from Paid to Unpaid and changes nothing else in that bill, in
\* the other bills, or in the other collections.
C5_ToggleFlipsOnlyStatus ==
  [][(last'.op = "toggle" /\ ~last'.raised /\ InRange("bills", last'.index))
     => /\ ListedNext("bills") =
             [Listed("bills") EXCEPT ![last'.index + 1].Status =
                IF @ = "Unpaid" THEN "Paid" ELSE "Unpaid"]
        /\ Listed("bills")[last'.index + 1].Status \in {"Unpaid", "Paid"}
        /\ OthersUnchanged("bills")]_vars

Descending(rows) == \A i \in 1..(Len(rows) - 1) : rows[i].Date >= rows[i + 1].Date

Ascending(rows) == \A i \in 1..(Len(rows) - 1) : rows[i].DueDate <= rows[i + 1].DueDate

\* C6: whatever adds, deletes and toggles have run, the lists of income,
\* non-essentials and savings are descending by date and the list of bills
\* is ascending by due date; the list of essentials keeps the order of
\* insertion: a step takes entries out of it or puts one at its end.
C6_ListOrder ==
  [][/\ Descending(ListedNext("income"))
     /\ Descending(ListedNext("non_essentials"))
     /\ Descending(ListedNext("savings"))
     /\ Ascending(ListedNext("bills"))
     /\ \/ IsSubsequence(ListedNext("essentials"), Listed("essentials"))
        \/ /\ ListedNext("essentials") # <<>>
           /\ ListedNext("essentials") =
                Listed("essentials") \o <<ListedNext("essentials")[Len(ListedNext("essentials"))]>>
    ]_vars

\* The income file holds an older row before a newer one, the bills file a
\* later bill before an earlier one, and two essentials are stored.
C6_Witness ==
  \/ /\ Len(files["income"]) = 2
     /\ files["income"][1].Date < files["income"][2].Date
  \/ /\ Len(files["bills"]) = 2
     /\ files["bills"][1].DueDate > files["bills"][2].DueDate
     /\ last.op = "add"

\* C7: when the write of the backing file fails in add, delete or
\* toggle_bill_status, the call raises and the collection of that kind is
\* what it was before the call.
C7_FailedWriteChangesNothing ==
  [][(last'.layer = "dm" /\ last'.op \in {"add", "delete", "toggle"}
      /\ last'.write \in {"open", "torn"})
     => /\ last'.raised
        /\ ListedNext(last'.kind) = Listed(last'.kind)]_vars

\* C8: every failure the store raises during an add, delete or toggle of a
\* handler is shown by that handler as an error message box, and no success
\* box is shown.
C8_StoreFailureIsShown ==
  [][(last'.layer = "ui" /\ last'.op \in {"add", "delete", "toggle"}
      /\ last'.write \in {"open", "torn"} /\ last'.raised)
     => last'.notif = "error"]_vars

\* C9: when the backing file of a kind cannot be read, list(kind) raises
\* nothing and returns an empty frame with the columns of the kind, and the
\* page of the kind shows no message box.
C9_UnreadableListsEmpty ==
  /\ (last.layer = "dm" /\ last.op = "list" /\ unreadable[last.kind])
       => (~last.raised /\ last.args = [columns |-> Columns(last.kind), rows |-> <<>>])
  /\ (last.layer = "ui" /\ last.op = "show" /\ unreadable[last.kind])
       => (~last.escaped /\ last.notif = "none" /\ last.args.rows = <<>>)

\* list has been called on a file that holds a row and cannot be parsed.
C9_Witness ==
  /\ last.layer = "dm" /\ last.op = "list"
  /\ unreadable[last.kind] /\ Len(files[last.kind]) >= 1

\* The claim's reading of a form that must be rejected.
NotNumeric(text) == float(text).raised

Invalid(k, f) ==
  CASE k = "income" ->
         NotNumeric(f.amount) \/ float(f.amount).value <= 0 \/ strip(f.description) = <<>>
    [] k = "essentials" ->
         \/ NotNumeric(f.expected) \/ NotNumeric(f.actual)
         \/ float(f.expected).value < 0 \/ float(f.actual).value < 0
         \/ strip(f.category) = <<>>
    [] k = "bills" ->
         NotNumeric(f.amount) \/ float(f.amount).value <= 0 \/ strip(f.bill_name) = <<>>
    [] k = "non_essentials" ->
         NotNumeric(f.amount) \/ float(f.amount).value <= 0 \/ strip(f.expense) = <<>>
    [] k = "savings" ->
         NotNumeric(f.deposit) \/ float(f.deposit).value <= 0

\* C10: an add from a form whose amount is not a number or is not positive
\* (essentials: expected or actual negative), or whose required text is
\* blank, calls no store method and leaves every backing file as it was.
C10_InvalidFormNeverReachesStore ==
  [][(last'.layer = "ui" /\ last'.op = "add" /\ Invalid(last'.kind, last'.form))
     => (last'.call = "none" /\ files' = files /\ unreadable' = unreadable)]_vars

\* A form with a zero amount and a filled description has been rejected
\* while the store holds a row.
C10_Witness ==
  /\ last.layer = "ui" /\ last.op = "add" /\ last.kind = "income"
  /\ last.call = "none" /\ last.notif = "error"
  /\ float(last.form.amount) = Value(0) /\ strip(last.form.description) # <<>>
  /\ Len(files["income"]) >= 1

\* The store after the step.
storeNext == [files |-> files', unreadable |-> unreadable']

\* C12: after a reset_all_data that returns, list(kind) is empty for each of
\* the five kinds, and an add of any kind that follows it and returns leaves
\* list(kind) holding exactly the entry added, the other files still empty.
C12_ResetEmptiesAndAddWorks ==
  [][(last'.op = "reset" /\ last'.call # "none" /\ ~last'.raised)
     => /\ \A k \in Kinds : ListedNext(k) = <<>>
        /\ \A k \in Kinds : \A a \in AddArgs(k) :
             LET r == add(storeNext, k, a, Ok) IN
               ~r.raised =>
                 /\ list([files |-> r.files, unreadable |-> r.unreadable], k).df.rows
                      = <<Entry(k, a)>>
                 /\ \A j \in Kinds \ {k} : r.files[j] = <<>>]_vars

\* A reset of a ledger that held two rows has returned.
C12_Witness ==
  /\ last.op = "reset" /\ last.call # "none" /\ ~last.raised /\ last.index = 2

\* C11: whatever add_bill, toggle_bill_status and delete_bill calls have
\* run, every bill in bills.csv has the status "Paid" or "Unpaid".
C11_StatusIsPaidOrUnpaid ==
  \A i \in 1..Len(files["bills"]) : files["bills"][i].Status \in {"Paid", "Unpaid"}

\* What the calculator method that ran last returned.
result == last.args

\* The sum of a column over the rows the file of kind k holds.
RECURSIVE SumTo(_, _, _)
SumTo(k, column, n) ==
  IF n = 0 THEN 0 ELSE SumTo(k, column, n - 1) + files[k][n][column]

Total(k, column) == FromInt(SumTo(k, column, Len(files[k])))

\* math.isclose(a, b): equal within a relative tolerance of 1e-09.
IsClose(a, b) ==
  ~FLt(FMul(Literal(1, 1000000000), FMax(FAbs(a), FAbs(b))), FAbs(FSub(a, b)))

\* The three targets are 50, 30 and 20 hundredths of the total income, the
\* sum of the income amounts.
TargetsAreShares ==
  /\ result.total_income = Total("income", "Amount")
  /\ IsClose(FMul(result.essentials_target, Hundred), FMul(result.total_income, FromInt(50)))
  /\ IsClose(FMul(result.non_essentials_target, Hundred),
             FMul(result.total_income, FromInt(30)))
  /\ IsClose(FMul(result.savings_target, Hundred), FMul(result.total_income, FromInt(20)))

\* essentials_target + non_essentials_target + savings_target
TargetsSum ==
  FAdd(FAdd(result.essentials_target, result.non_essentials_target), result.savings_target)

\* C13 as stated: for a ledger with at least one income entry the three
\* targets are 50%, 30% and 20% of the total income and their sum equals
\* the total income.
C13_TargetsSumEqualsIncome ==
  (last.op = "calculate_budget_allocations" /\ files["income"] # <<>>)
    => (TargetsAreShares /\ TargetsSum = result.total_income)

\* C13 amended: for a ledger with at least one income entry the three
\* targets are 50%, 30% and 20% of the total income and their sum equals
\* the total income within floating-point tolerance.
C13_TargetsSumCloseToIncome ==
  (last.op = "calculate_budget_allocations" /\ files["income"] # <<>>)
    => (TargetsAreShares /\ IsClose(TargetsSum, result.total_income))

\* The allocations of two income entries whose targets do not add up to
\* the total exactly.
C13_Witness ==
  /\ last.op = "calculate_budget_allocations" /\ Len(files["income"]) = 2
  /\ TargetsSum # result.total_income

\* C14: calculate_actual_spending returns the sum of the Actual column of
\* the essentials, of the Amount column of the non-essentials and of the
\* Deposit column of the savings, and 0 for a collection that is empty.
C14_ActualsAreColumnSums ==
  last.op = "calculate_actual_spending"
    => /\ result.essentials_actual = Total("essentials", "Actual")
       /\ result.non_essentials_actual = Total("non_essentials", "Amount")
       /\ result.savings_actual = Total("savings", "Deposit")
       /\ files["essentials"] = <<>> => result.essentials_actual = Zero
       /\ files["non_essentials"] = <<>> => result.non_essentials_actual = Zero
       /\ files["savings"] = <<>> => result.savings_actual = Zero

\* The actuals of a ledger with two essentials and no savings.
C14_Witness ==
  /\ last.op = "calculate_actual_spending"
  /\ Len(files["essentials"]) = 2 /\ files["savings"] = <<>>
  /\ result.essentials_actual = FromInt(1200)

\* The column get_budget_summary takes the actual of a category from.
ActualColumn(c) ==
  CASE c = "essentials" -> "Actual" [] c = "non_essentials" -> "Amount" [] c = "savings" -> "Deposit"

\* C15: get_budget_summary gives for each category the actual of the
\* ledger, difference = actual - target, and percentage = actual /
\* total income * 100 when the total income is above 0; with no income every
\* target and every percentage is 0, and no division by zero happens.
C15_SummaryOfEachCategory ==
  last.op = "get_budget_summary"
    => /\ result.total_income = Total("income", "Amount")
       /\ \A c \in {"essentials", "non_essentials", "savings"} :
            /\ result[c].actual = Total(c, ActualColumn(c))
            /\ result[c].difference = FSub(result[c].actual, result[c].target)
            /\ ~IsUndefined(result[c].percentage)
            /\ FLt(Zero, result.total_income)
                 => result[c].percentage
                      = FMul(FDiv(result[c].actual, result.total_income), Hundred)
            /\ IsZero(result.total_income)
                 => (result[c].target = Zero /\ result[c].percentage = Zero)

\* The summary of a ledger with essentials and no income.
C15_Witness ==
  /\ last.op = "get_budget_summary"
  /\ files["income"] = <<>> /\ files["essentials"] # <<>>
  /\ result.essentials.difference = FromInt(600)

\* The categories of the budget adherence analysis.
BudgetCategories == {"essentials", "non_essentials", "savings"}

\* The share of the income that is the target of category c.
ShareOf(c) ==
  CASE c = "essentials" -> EssentialsShare
    [] c = "non_essentials" -> NonEssentialsShare
    [] c = "savings" -> SavingsShare

\* The variance shown for category c is (actual - target) / target * 100
\* when the target is above 0 and 0 when the target is 0, and no division by
\* zero happens.
VarianceOf(c) ==
  /\ result.target[c] = FMul(result.total_income, ShareOf(c))
  /\ ~IsUndefined(result.variance[c])
  /\ FLt(Zero, result.target[c])
       => result.variance[c]
            = FMul(FDiv(FSub(result.actual[c], result.target[c]), result.target[c]), Hundred)
  /\ IsZero(result.target[c]) => result.variance[c] = Zero

\* 'Over by P%' with P the absolute variance of category c to one decimal.
OverBy(c) ==
  "Over by " \o ToString(Tenths(FAbs(result.variance[c])) \div 10) \o "."
             \o ToString(Tenths(FAbs(result.variance[c])) % 10) \o "%"

\* An income of 1000 and an essentials actual of 600 give the target 500,
\* the variance +20 and the text 'Over by 20.0%'.
OverByTwenty ==
  (result.total_income = FromInt(1000) /\ result.actual.essentials = FromInt(600))
    => /\ result.target.essentials = FromInt(500)
       /\ result.variance.essentials = FromInt(20)
       /\ result.variance_text.essentials = "Over by 20.0%"

\* C16 as stated: for every category the variance shown is (actual -
\* target) / target * 100 when the target is above 0 and 0 when it is 0,
\* never dividing by zero, and an actual above its target is labelled
\* 'Over by P%' with P the absolute variance.
C16_AboveTargetIsOver ==
  last.op = "show_analytics"
    => /\ \A c \in BudgetCategories :
            /\ VarianceOf(c)
            /\ FLt(result.target[c], result.actual[c]) => result.variance_text[c] = OverBy(c)
       /\ OverByTwenty

\* C16 amended: for every category the variance shown is (actual - target)
\* / target * 100 when the target is above 0 and 0 when it is 0, never
\* dividing by zero; an actual above a target that is above 0 is labelled
\* 'Over by P%' with P the absolute variance, and with a target of 0 the
\* label is 'Under by 0.0%' whatever the actual.
C16_AbovePositiveTargetIsOver ==
  last.op = "show_analytics"
    => /\ \A c \in BudgetCategories :
            /\ VarianceOf(c)
            /\ (FLt(Zero, result.target[c]) /\ FLt(result.target[c], result.actual[c]))
                 => result.variance_text[c] = OverBy(c)
            /\ IsZero(result.target[c]) => result.variance_text[c] = "Under by 0.0%"
       /\ OverByTwenty

\* The analytics of an income of 1000 with essentials of 600 and no
\* non-essentials: over by 20.0% on the one, under by 100.0% on the other.
C16_Witness ==
  /\ last.op = "show_analytics"
  /\ result.total_income = FromInt(1000) /\ result.actual.essentials = FromInt(600)
  /\ result.variance_text.essentials = "Over by 20.0%"
  /\ result.variance_text.non_essentials = "Under by 100.0%"

\* Every amount of the ledger is 0 or more.
NonNegative ==
  /\ \A i \in DOMAIN files["income"] : files["income"][i].Amount >= 0
  /\ \A i \in DOMAIN files["essentials"] :
       files["essentials"][i].Expected >= 0 /\ files["essentials"][i].Actual >= 0
  /\ \A i \in DOMAIN files["non_essentials"] : files["non_essentials"][i].Amount >= 0
  /\ \A i \in DOMAIN files["savings"] : files["savings"][i].Deposit >= 0

\* lo <= x <= hi
Within(x, lo, hi) == ~IsUndefined(x) /\ ~FLt(x, FromInt(lo)) /\ ~FLt(FromInt(hi), x)

\* C17: for a ledger whose amounts are all 0 or more, a ledger with no
\* income or with no expenses included, the financial health score is
\* between 0 and 100 and each of its four components between 0 and 25.
C17_ScoreWithinBounds ==
  (last.op = "show_analytics" /\ NonNegative)
    => /\ Within(result.total_score, 0, 100)
       /\ \A c \in DOMAIN result.score_components : Within(result.score_components[c], 0, 25)

\* The score of a ledger with expenses, savings and no income: 0 for the
\* savings rate, 25 for the expense control, a fraction for the emergency
\* fund.
C17_Witness ==
  /\ last.op = "show_analytics" /\ NonNegative
  /\ files["income"] = <<>> /\ files["non_essentials"] # <<>> /\ files["savings"] # <<>>
  /\ result.score_components.savings_rate = Zero
  /\ result.score_components.expense_control = FromInt(25)
  /\ FLt(Zero, result.score_components.emergency_fund)
  /\ FLt(result.score_components.emergency_fund, FromInt(25))

\* The four components added up as show_analytics adds them, for a savings
\* rate and an emergency fund guard given: min(savingsRate / 20 * 25, 25),
\* max(0, 25 - |v| / 10 * 25) with v the variance of the savings, min(savings
\* / (3 * totalExpenses) * 25, 25) or 0 without expenses, and 25 for an
\* expense ratio of 80 or less, else max(0, 25 - (expenseRatio - 80) / 20 *
\* 25).
HealthScore(savingsRate, noExpenses) ==
  LET c25 == FromInt(25)
      adherence == FMax(Zero, FSub(c25, FMul(FDiv(FAbs(result.variance.savings), FromInt(10)),
                                             c25)))
      emergency == IF noExpenses THEN Zero
                   ELSE FMin(FMul(FDiv(result.total_savings,
                                       FMul(FromInt(3), result.total_expenses)), c25), c25)
      control   == IF ~FLt(FromInt(80), result.expense_ratio) THEN c25
                   ELSE FMax(Zero, FSub(c25, FMul(FDiv(FSub(result.expense_ratio, FromInt(80)),
                                                       FromInt(20)), c25)))
  IN FAdd(FAdd(FAdd(FMin(FMul(FDiv(savingsRate, FromInt(20)), c25), c25), adherence),
               emergency), control)

\* savings / income * 100
SavingsRate == FMul(FDiv(result.total_savings, result.total_income), Hundred)

\* The band of the score shown: Excellent from 80, Good from 60, Needs
\* improvement from 40, else Critical; the expenses are the essentials plus
\* the non-essentials.
BandAndExpenses ==
  /\ result.total_expenses = FAdd(result.actual.essentials, result.actual.non_essentials)
  /\ result.interpretation
       = (IF ~FLt(result.total_score, FromInt(80)) THEN "Excellent financial health!"
          ELSE IF ~FLt(result.total_score, FromInt(60)) THEN "Good financial management"
          ELSE IF ~FLt(result.total_score, FromInt(40)) THEN "Needs improvement"
          ELSE "Critical - Review budget immediately")

\* C18 as stated: the score is the sum of the four components, the savings
\* rate being savings / income * 100 and 0 if the income is 0, the emergency
\* fund component being 0 if the total of the expenses is 0; the bands are as
\* above.
C18_ScoreIsSumZeroGuards ==
  last.op = "show_analytics"
    => /\ result.total_score
            = HealthScore(IF IsZero(result.total_income) THEN Zero ELSE SavingsRate,
                          IsZero(result.total_expenses))
       /\ BandAndExpenses

\* C18 amended: the score is the sum of the four components, the savings
\* rate being savings / income * 100 and 0 if the income is not above 0, the
\* emergency fund component being 0 if the total of the expenses is not
\* above 0; the bands are as above.
C18_ScoreIsSumPositiveGuards ==
  last.op = "show_analytics"
    => /\ result.total_score
            = HealthScore(IF FLt(Zero, result.total_income) THEN SavingsRate ELSE Zero,
                          ~FLt(Zero, result.total_expenses))
       /\ BandAndExpenses

\* A score with every component in play: an income of 950 (a correction of
\* -50 on 1000), expenses of 800 and savings of 200.
C18_Witness ==
  /\ last.op = "show_analytics"
  /\ result.total_income = FromInt(950) /\ result.total_expenses = FromInt(800)
  /\ result.total_savings = FromInt(200)
  /\ \A c \in {"budget_adherence", "emergency_fund", "expense_control"} :
       /\ FLt(Zero, result.score_components[c])
       /\ FLt(result.score_components[c], FromInt(25))
  /\ result.score_components.savings_rate = FromInt(25)
  /\ result.interpretation = "Needs improvement"

\* The column of the amounts of a collection.
AmountColumn(k) == IF k = "savings" THEN "Deposit" ELSE "Amount"

\* The sum of the amounts of collection k dated from day a to day b.
SumBetween(k, a, b) ==
  sum(SelectSeq(files[k], LAMBDA r : a <= r.Date /\ r.Date <= b), AmountColumn(k))

\* A series of exactly days + 1 entries, one for each date of the window
\* that ends today, each with the sum of the amounts of its date (0 when
\* the date has none).
Dense(series, k) ==
  /\ Len(series) = result.days + 1
  /\ \A i \in 1..Len(series) :
       /\ series[i].Date = result.today - result.days + i - 1
       /\ series[i][AmountColumn(k)] = SumBetween(k, series[i].Date, series[i].Date)

\* C19: for every input collection, however sparse, and every window length
\* days, the trend series has exactly days + 1 entries, one for each date of
\* the window ending at the current date with none missing, and the daily sum
\* of a date without entries is 0.
C19_TrendIsDense ==
  /\ last.op = "get_spending_trends"
       => \A k \in {"non_essentials", "income", "savings"} :
            k \in DOMAIN result.trends /\ Dense(result.trends[k], k)
  /\ last.op = "create_spending_trend_chart"
       => "plot" \in DOMAIN result.figure /\ Dense(result.figure.plot, "non_essentials")

\* The entries of a series are in ascending order of their dates, and the
\* cumulative value of each is the sum of the amounts of collection k dated
\* from day a up to its date.
AscendingCumulative(series, k, a) ==
  /\ \A i, j \in 1..Len(series) : i < j => series[i].Date <= series[j].Date
  /\ \A i \in 1..Len(series) :
       /\ "Cumulative" \in DOMAIN series[i]
       /\ series[i].Cumulative = SumBetween(k, a, series[i].Date)

\* C20: in every trend series (non-essentials, income, savings) the entries
\* are in ascending order of their dates and the cumulative value at each
\* date is the sum of the amounts of all entries of the window dated on or
\* before it; amounts of 10 and 20 on days 1 and 3 of the window of days 1 to
\* 5 give the cumulative values 10, 10, 30, 30, 30.
C20_AscendingCumulative ==
  /\ last.op = "get_spending_trends"
       => /\ \A k \in DOMAIN result.trends :
               AscendingCumulative(result.trends[k], k, result.today - result.days)
          /\ (/\ result.today = 5 /\ result.days = 4
              /\ \E i, j \in 1..2 :
                   /\ Len(files["non_essentials"]) = 2
                   /\ files["non_essentials"][i].Date = 1 /\ files["non_essentials"][i].Amount = 10
                   /\ files["non_essentials"][j].Date = 3 /\ files["non_essentials"][j].Amount = 20)
               => \E series \in {result.trends["non_essentials"]} :
                    /\ Len(series) = 5
                    /\ \A i \in 1..5 : "Cumulative" \in DOMAIN series[i]
                    /\ [i \in 1..5 |-> series[i].Cumulative] = <<10, 10, 30, 30, 30>>
  /\ (last.op = "create_non_essentials_chart" /\ "plot" \in DOMAIN result.figure)
       => AscendingCumulative(result.figure.plot, "non_essentials", 1)

\* The stored bills a query is to return: the Unpaid ones due from day a
\* to day b.
Due(a, b) ==
  SelectSeq(files["bills"],
            LAMBDA row : row.Status = "Unpaid" /\ a <= row.DueDate /\ row.DueDate <= b)

C23_UpcomingBills ==
  last.op = "get_upcoming_bills" =>
    /\ SameEntries(result.rows, Due(result.today, result.today + result.days))
    /\ Ascending(result.rows)
    /\ \A i \in 1..Len(result.rows) : result.rows[i].DueDate >= result.today

\* The scenario of the claim: an Unpaid bill due on 2024-01-01 and a Paid
\* one due on 2024-01-10, asked on 2024-01-05 for a week: nothing is
\* upcoming.
C23_Witness ==
  /\ last.op = "get_upcoming_bills"
  /\ result.days = 7
  /\ \E i, j \in 1..Len(files["bills"]) :
       /\ files["bills"][i].Status = "Unpaid" /\ files["bills"][i].DueDate = 1
       /\ files["bills"][j].Status = "Paid" /\ files["bills"][j].DueDate = 10
  /\ result.rows = <<>>

\* How often the recommendations shown hold the advisory text.
Advised(text) == Count(result.recommendations, text)

\* 1 when the rule holds, 0 when it does not.
Once(rule) == IF rule THEN 1 ELSE 0

\* The stored bills that are Unpaid.
UnpaidBills == SelectSeq(files["bills"], LAMBDA row : row.Status = "Unpaid")

\* C21: the recommendations of show_analytics hold one advisory for each
\* rule that is triggered (savings rate < 20; essentials actual > target;
\* non-essentials actual > target; at least one Unpaid bill; savings <
\* 3 * total expenses), none for a rule that is not, the affirming message
\* exactly when no rule is triggered, nothing else, and so are never empty.
C21_Recommendations ==
  last.op = "show_analytics" =>
    \E rate \in {FLt(result.savings_rate, FromInt(20))},
       essentials \in {FLt(result.target.essentials, result.actual.essentials)},
       non_essentials \in {FLt(result.target.non_essentials, result.actual.non_essentials)},
       unpaid \in {UnpaidBills # <<>>},
       fund \in {FLt(result.total_savings, FMul(FromInt(3), result.total_expenses))} :
      /\ Advised("Increase your savings rate to reach the 20% target") = Once(rate)
      /\ Advised("Review essential expenses - you're over the 50% target") = Once(essentials)
      /\ Advised("Reduce non-essential spending to stay within 30% budget")
           = Once(non_essentials)
      /\ Advised("Pay outstanding bills to avoid late fees") = Once(unpaid)
      /\ Advised("Build emergency fund to cover 3-6 months of expenses") = Once(fund)
      /\ Advised("Great job! Your budget is well-balanced")
           = Once(~(rate \/ essentials \/ non_essentials \/ unpaid \/ fund))
      /\ Len(result.recommendations)
           = Once(rate) + Once(essentials) + Once(non_essentials) + Once(unpaid) + Once(fund)
             + Once(~(rate \/ essentials \/ non_essentials \/ unpaid \/ fund))
      /\ result.recommendations # <<>>

\* A ledger on which the only rule triggered is the one on the bills: an
\* income of 1000, savings of 200, no expense and an Unpaid bill.
C21_Witness ==
  /\ last.op = "show_analytics"
  /\ result.recommendations = <<"Pay outstanding bills to avoid late fees">>

\* A ledger on which no rule is triggered gets the affirming message.
C21_WitnessAffirming ==
  /\ last.op = "show_analytics"
  /\ files["bills"] # <<>>
  /\ result.recommendations = <<"Great job! Your budget is well-balanced">>

\* C29: an add never removes stored entries: every entry the backing file
\* of the kind held before an add whose write succeeds is held by it
\* afterwards, at least as often, also when the file could not be parsed
\* when the add read it.
C29_AddKeepsStoredEntries ==
  [][(last'.op = "add" /\ last'.write = "ok")
     => \A i \in 1..Len(files[last'.kind]) :
          Count(files'[last'.kind], files[last'.kind][i])
            >= Count(files[last'.kind], files[last'.kind][i])]_vars

\* What load_settings returns on the files as they are, and as they are
\* after the step.
Persisted == load_settings(sm).settings

PersistedNext == load_settings(sm').settings

\* The calls that end in save_settings.
SettingsWrites ==
  {"save_settings", "set_setting", "reset_settings", "add_custom_category",
   "import_settings", "migrate_settings", "apply_theme_change"}

\* C24: after a save_settings(m) that returns, load_settings() returns the
\* default settings overridden by m: every key of m with the value written
\* and every default key absent from m with its default value.
C24_SaveThenLoad ==
  [][(last'.op = "save_settings" /\ ~last'.raised)
     => PersistedNext = update(get_default_settings, last'.args.settings)]_vars

\* C25: after every operation that has written a settings file, loading
\* from settings.csv alone gives the same map as load_settings.
C25_FilesInSync ==
  (\/ last.op \in SettingsWrites /\ last.write = "ok"
   \/ last.op = "reset" /\ ~last.raised)
    => load_settings_from_csv(sm).settings = Persisted

\* C26: load_settings returns the content of settings.json over the
\* defaults whenever that file is there to be read, whatever settings.csv
\* holds; what load_settings_from_csv returns when there is no
\* settings.json; and the defaults when neither file can be read.
C26_JsonFirst ==
  last.op = "load_settings" =>
    /\ sm.json.state = "ok"
         => result = update(get_default_settings,
                            [key \in DOMAIN sm.json.text |-> json_loads(sm.json.text[key]).value])
    /\ sm.json.state = "absent" => result = load_settings_from_csv(sm).settings
    /\ (sm.json.state # "ok" /\ sm.csv.state # "ok") => result = get_default_settings

\* C27: after a reset_settings that returns, whatever calls of the manager
\* came before, load_settings returns the original default settings, the
\* original lists of categories among them.
C27_ResetGivesDefaults ==
  (last.op = "reset_settings" /\ ~last.raised) => Persisted = get_default_settings

\* C28: after migrate_settings settings.json holds every key of the
\* defaults, and migrate_settings returns True exactly when the file lacked
\* one of them before the call.
C28_MigrateAddsKeys ==
  [][(last'.op = "migrate_settings" /\ ~last'.raised)
     => /\ sm'.json.state = "ok"
        /\ DOMAIN get_default_settings \subseteq DOMAIN sm'.json.text
        /\ last'.args.returned
             <=> (sm.json.state # "ok"
                  \/ ~(DOMAIN get_default_settings \subseteq DOMAIN sm.json.text))]_vars

\* C30: a theme change that returns changes the theme alone: every other
\* key of the persisted settings has the value it had just before, and no
\* key is added, also when the settings files were replaced since the
\* application started.
C30_OnlyThemeChanges ==
  [][(last'.op = "apply_theme_change" /\ ~last'.raised)
     => /\ DOMAIN PersistedNext = DOMAIN Persisted
        /\ \A key \in DOMAIN Persisted \ {"theme"} : PersistedNext[key] = Persisted[key]]_vars

====
